---- MODULE Spec2Model ----
(***************************************************************************)
(* Roadmap_builder: the AI-response repair and roadmap normalisation of    *)
(* the two POST /api/generate-roadmap handlers (protected/js/chat.js and   *)
(* server-patch.js), the page code that reads their answer, the sessions   *)
(* and protected routes of the servers, and the page itself: app.js and    *)
(* the chat over the Firestore service.                                    *)
(*                                                                         *)
(* Texts are sequences of one-character strings, JSON values are tagged    *)
(* records, JSON.parse and JSON.stringify are modelled character by        *)
(* character.  Numbers are integers (no fraction, no exponent, no -0),     *)
(* strings have no \u escapes, and white space is the four characters      *)
(* of the JSON grammar.                                                    *)
(***************************************************************************)
EXTENDS Integers, Sequences, FiniteSets, TLC

VARIABLES pc, handler, aiSent, aiText, repOut, normIn, normOut, response,
          calls, rawAfter, created, req, session, lastAuth, page, login,
          loaded, db, currentUser, stored, nextId, RoadmapApp, gen, pending,
          added, roadmapsUnsubscribe, listeners, AppState, inflight, ops

\* the state of the page
pageVars == <<loaded, db, currentUser, stored, nextId, RoadmapApp, gen, pending,
              added, roadmapsUnsubscribe, listeners, AppState, inflight, ops>>

vars == <<pc, handler, aiSent, aiText, repOut, normIn, normOut, response, calls,
          rawAfter, created, req, session, lastAuth, page, login, pageVars>>

(***************************************************************************)
(* JavaScript values.  k is the kind, n the number (or 0/1 of a boolean),  *)
(* s the characters of a string, a the elements of an array, o the         *)
(* members of an object in insertion order.                                *)
(***************************************************************************)
Undef == [k |-> "undefined", n |-> 0, s |-> <<>>, a |-> <<>>, o |-> <<>>]

Null == [k |-> "null", n |-> 0, s |-> <<>>, a |-> <<>>, o |-> <<>>]

Bool(b) == [k |-> "boolean", n |-> IF b THEN 1 ELSE 0, s |-> <<>>, a |-> <<>>, o |-> <<>>]

Num(x) == [k |-> "number", n |-> x, s |-> <<>>, a |-> <<>>, o |-> <<>>]

Str(cs) == [k |-> "string", n |-> 0, s |-> cs, a |-> <<>>, o |-> <<>>]

Arr(items) == [k |-> "array", n |-> 0, s |-> <<>>, a |-> items, o |-> <<>>]

Obj(members) == [k |-> "object", n |-> 0, s |-> <<>>, a |-> <<>>, o |-> members]

Member(key, val) == [key |-> key, val |-> val]

\* typeof v === 'string'
IsString(v) == v.k = "string"

\* Array.isArray(v)
IsArray(v) == v.k = "array"

\* a plain (non-array, non-null) object
IsObject(v) == v.k = "object"

\* ToBoolean: undefined, null, false, 0 and '' are falsy
Truthy(v) ==
    CASE v.k = "undefined" -> FALSE
      [] v.k = "null" -> FALSE
      [] v.k = "boolean" -> v.n = 1
      [] v.k = "number" -> v.n # 0
      [] v.k = "string" -> v.s # <<>>
      [] OTHER -> TRUE

\* x || y
OrElse(x, y) == IF Truthy(x) THEN x ELSE y

\* reading a property of null or undefined throws TypeError
Readable(v) == v.k \notin {"null", "undefined"}

HasKey(v, key) == IsObject(v) /\ \E i \in 1..Len(v.o) : v.o[i].key = key

\* v.key (v readable): an own property of an object, else undefined
Get(v, key) ==
    IF HasKey(v, key)
    THEN v.o[CHOOSE i \in 1..Len(v.o) : v.o[i].key = key].val
    ELSE Undef

(***************************************************************************)
(* Characters and decimal numerals.                                        *)
(***************************************************************************)
\* the characters U+0008 and U+000C, which a TLA+ string cannot hold
Backspace == "U+0008"

FormFeed == "U+000C"

DigitChars == <<"0", "1", "2", "3", "4", "5", "6", "7", "8", "9">>

IsDigit(c) == \E d \in 1..Len(DigitChars) : DigitChars[d] = c

DigitVal(c) == (CHOOSE d \in 1..Len(DigitChars) : DigitChars[d] = c) - 1

IsSpace(c) == c \in {" ", "\n", "\t", "\r"}

RECURSIVE NatToChars(_)
NatToChars(x) ==
    IF x < Len(DigitChars)
    THEN <<DigitChars[x + 1]>>
    ELSE Append(NatToChars(x \div Len(DigitChars)), DigitChars[(x % Len(DigitChars)) + 1])

\* String(x) of an integer
IntToChars(x) == IF x < 0 THEN <<"-">> \o NatToChars(0 - x) ELSE NatToChars(x)

RECURSIVE CharsToNat(_, _)
CharsToNat(cs, acc) ==
    IF cs = <<>> THEN acc
    ELSE CharsToNat(Tail(cs), acc * Len(DigitChars) + DigitVal(Head(cs)))

\* an array index written canonically: such keys are enumerated first, in
\* ascending order, before the other keys in insertion order
IsIndexKey(key) ==
    /\ key # <<>>
    /\ \A i \in 1..Len(key) : IsDigit(key[i])
    /\ Len(key) = 1 \/ key[1] # "0"

\* the position a new key takes among the members
InsertAt(members, key) ==
    IF IsIndexKey(key)
    THEN Cardinality({i \in 1..Len(members) :
                        /\ IsIndexKey(members[i].key)
                        /\ CharsToNat(members[i].key, 0) < CharsToNat(key, 0)}) + 1
    ELSE Len(members) + 1

\* v[key] = val on an object: in place when the key exists, else added
Put(v, key, val) ==
    IF HasKey(v, key)
    THEN Obj([i \in 1..Len(v.o) |->
                IF v.o[i].key = key THEN Member(key, val) ELSE v.o[i]])
    ELSE LET at == InsertAt(v.o, key) IN
         Obj(SubSeq(v.o, 1, at - 1) \o <<Member(key, val)>> \o SubSeq(v.o, at, Len(v.o)))

(***************************************************************************)
(* JSON.stringify(v), without indentation.  A member whose value is        *)
(* undefined is omitted, an undefined array element is written null.       *)
(***************************************************************************)
EscapeChar(c) ==
    CASE c = "\"" -> <<"\\", "\"">>
      [] c = "\\" -> <<"\\", "\\">>
      [] c = "\n" -> <<"\\", "n">>
      [] c = "\t" -> <<"\\", "t">>
      [] c = "\r" -> <<"\\", "r">>
      [] c = Backspace -> <<"\\", "b">>
      [] c = FormFeed -> <<"\\", "f">>
      [] OTHER -> <<c>>

RECURSIVE EscapeChars(_)
EscapeChars(cs) ==
    IF cs = <<>> THEN <<>> ELSE EscapeChar(Head(cs)) \o EscapeChars(Tail(cs))

Quote(cs) == <<"\"">> \o EscapeChars(cs) \o <<"\"">>

\* the texts of parts, separated by commas
RECURSIVE JoinComma(_)
JoinComma(parts) ==
    IF parts = <<>> THEN <<>>
    ELSE IF Len(parts) = 1 THEN Head(parts)
    ELSE Head(parts) \o <<",">> \o JoinComma(Tail(parts))

Defined(members) == SelectSeq(members, LAMBDA m : m.val.k # "undefined")

RECURSIVE Stringify(_)
Stringify(v) ==
    CASE v.k = "null" -> <<"n", "u", "l", "l">>
      [] v.k = "undefined" -> <<"n", "u", "l", "l">>
      [] v.k = "boolean" ->
           IF v.n = 1 THEN <<"t", "r", "u", "e">> ELSE <<"f", "a", "l", "s", "e">>
      [] v.k = "number" -> IntToChars(v.n)
      [] v.k = "string" -> Quote(v.s)
      [] v.k = "array" ->
           <<"[">> \o JoinComma([i \in 1..Len(v.a) |-> Stringify(v.a[i])]) \o <<"]">>
      [] OTHER ->
           LET ms == Defined(v.o) IN
           <<"{">> \o JoinComma([i \in 1..Len(ms) |->
                        Quote(ms[i].key) \o <<":">> \o Stringify(ms[i].val)]) \o <<"}">>

(***************************************************************************)
(* JSON.parse(t): a recursive-descent reading of the JSON grammar.  A      *)
(* parse step returns [ok, v, i]: success, the value, the next position.   *)
(* A repeated key keeps its first position and takes the last value.       *)
(***************************************************************************)
Fail == [ok |-> FALSE, v |-> Undef, i |-> 0]

Done(v, i) == [ok |-> TRUE, v |-> v, i |-> i]

RECURSIVE SkipWs(_, _)
SkipWs(t, i) == IF i <= Len(t) /\ IsSpace(t[i]) THEN SkipWs(t, i + 1) ELSE i

Matches(t, i, lit) ==
    /\ i + Len(lit) - 1 <= Len(t)
    /\ SubSeq(t, i, i + Len(lit) - 1) = lit

Unescape(c) ==
    CASE c = "n" -> "\n"
      [] c = "t" -> "\t"
      [] c = "r" -> "\r"
      [] c = "b" -> Backspace
      [] c = "f" -> FormFeed
      [] OTHER -> c

\* t[i] is the character after the opening quote
RECURSIVE ScanString(_, _, _)
ScanString(t, i, acc) ==
    IF i > Len(t) THEN Fail
    ELSE IF t[i] = "\"" THEN Done(Str(acc), i + 1)
    ELSE IF t[i] \in {"\n", "\t", "\r", Backspace, FormFeed} THEN Fail
    ELSE IF t[i] = "\\"
    THEN IF i + 1 <= Len(t) /\ t[i + 1] \in {"\"", "\\", "/", "n", "t", "r", "b", "f"}
         THEN ScanString(t, i + 2, Append(acc, Unescape(t[i + 1])))
         ELSE Fail
    ELSE ScanString(t, i + 1, Append(acc, t[i]))

RECURSIVE ScanDigits(_, _, _)
ScanDigits(t, i, acc) ==
    IF i <= Len(t) /\ IsDigit(t[i])
    THEN ScanDigits(t, i + 1, acc * Len(DigitChars) + DigitVal(t[i]))
    ELSE Done(Num(acc), i)

\* -?(0|[1-9][0-9]*)
ParseNumber(t, i) ==
    LET neg == t[i] = "-"
        j == IF neg THEN i + 1 ELSE i
        r == IF j <= Len(t) /\ IsDigit(t[j])
             THEN IF t[j] = "0" THEN Done(Num(0), j + 1) ELSE ScanDigits(t, j, 0)
             ELSE Fail
    IN  IF r.ok /\ neg THEN Done(Num(0 - r.v.n), r.i) ELSE r

RECURSIVE ParseValue(_, _)
RECURSIVE ParseElements(_, _, _)
RECURSIVE ParseMembers(_, _, _)

\* t[i0] starts an element; acc holds the elements read so far
ParseElements(t, i0, acc) ==
    LET r == ParseValue(t, i0)
        j == SkipWs(t, r.i)
    IN  IF ~r.ok \/ j > Len(t) THEN Fail
        ELSE IF t[j] = "," THEN ParseElements(t, j + 1, Append(acc, r.v))
        ELSE IF t[j] = "]" THEN Done(Arr(Append(acc, r.v)), j + 1)
        ELSE Fail

\* t[i0] starts a member; acc is the object read so far
ParseMembers(t, i0, acc) ==
    LET i == SkipWs(t, i0)
        key == IF i <= Len(t) /\ t[i] = "\"" THEN ScanString(t, i + 1, <<>>) ELSE Fail
        c == SkipWs(t, key.i)
        r == IF key.ok /\ c <= Len(t) /\ t[c] = ":" THEN ParseValue(t, c + 1) ELSE Fail
        j == SkipWs(t, r.i)
    IN  IF ~r.ok \/ j > Len(t) THEN Fail
        ELSE IF t[j] = "," THEN ParseMembers(t, j + 1, Put(acc, key.v.s, r.v))
        ELSE IF t[j] = "}" THEN Done(Put(acc, key.v.s, r.v), j + 1)
        ELSE Fail

ParseValue(t, i0) ==
    LET i == SkipWs(t, i0) IN
    IF i > Len(t) THEN Fail
    ELSE IF t[i] = "{"
    THEN LET j == SkipWs(t, i + 1) IN
         IF j <= Len(t) /\ t[j] = "}" THEN Done(Obj(<<>>), j + 1)
         ELSE ParseMembers(t, i + 1, Obj(<<>>))
    ELSE IF t[i] = "["
    THEN LET j == SkipWs(t, i + 1) IN
         IF j <= Len(t) /\ t[j] = "]" THEN Done(Arr(<<>>), j + 1)
         ELSE ParseElements(t, i + 1, <<>>)
    ELSE IF t[i] = "\"" THEN ScanString(t, i + 1, <<>>)
    ELSE IF t[i] = "-" \/ IsDigit(t[i]) THEN ParseNumber(t, i)
    ELSE IF Matches(t, i, <<"t", "r", "u", "e">>) THEN Done(Bool(TRUE), i + 4)
    ELSE IF Matches(t, i, <<"f", "a", "l", "s", "e">>) THEN Done(Bool(FALSE), i + 5)
    ELSE IF Matches(t, i, <<"n", "u", "l", "l">>) THEN Done(Null, i + 4)
    ELSE Fail

(***************************************************************************)
(* Outcomes of a call: a returned value, or a thrown error with its class  *)
(* name and message.                                                       *)
(***************************************************************************)
Return(v) == [ok |-> TRUE, val |-> v, err |-> "", msg |-> ""]

Throw(name, message) == [ok |-> FALSE, val |-> Undef, err |-> name, msg |-> message]

\* JSON.parse(t): the whole text must be one JSON value
JsonParse(t) ==
    LET r == ParseValue(t, 1) IN
    IF r.ok /\ SkipWs(t, r.i) = Len(t) + 1
    THEN Return(r.v)
    ELSE Throw("SyntaxError", "Unexpected token")

(***************************************************************************)
(* Property names and string constants of the roadmap document.            *)
(***************************************************************************)
KeyId == <<"i", "d">>

KeyTitle == <<"t", "i", "t", "l", "e">>

KeyDescription == <<"d", "e", "s", "c", "r", "i", "p", "t", "i", "o", "n">>

KeyDuration == <<"d", "u", "r", "a", "t", "i", "o", "n">>

KeyType == <<"t", "y", "p", "e">>

KeyResources == <<"r", "e", "s", "o", "u", "r", "c", "e", "s">>

KeyNodes == <<"n", "o", "d", "e", "s">>

KeySteps == <<"s", "t", "e", "p", "s">>

KeyEdges == <<"e", "d", "g", "e", "s">>

KeySource == <<"s", "o", "u", "r", "c", "e">>

KeyTarget == <<"t", "a", "r", "g", "e", "t">>

KeyLabel == <<"l", "a", "b", "e", "l">>

KeyLength == <<"l", "e", "n", "g", "t", "h">>

KeyEstimatedTotalDuration ==
    <<"e", "s", "t", "i", "m", "a", "t", "e", "d", "T", "o", "t", "a", "l",
      "D", "u", "r", "a", "t", "i", "o", "n">>

KeyDifficulty == <<"d", "i", "f", "f", "i", "c", "u", "l", "t", "y">>

KeyCategory == <<"c", "a", "t", "e", "g", "o", "r", "y">>

Then == Str(<<"T", "h", "e", "n">>)

Task == Str(<<"t", "a", "s", "k">>)

EmptyString == Str(<<>>)

DefaultTitle ==
    Str(<<"A", "I", " ", "G", "e", "n", "e", "r", "a", "t", "e", "d", " ",
          "R", "o", "a", "d", "m", "a", "p">>)

DefaultDifficulty == Str(<<"b", "e", "g", "i", "n", "n", "e", "r">>)

DefaultCategory == Str(<<"g", "e", "n", "e", "r", "a", "l">>)

\* faulty variant: the zero-based index is used unchanged (i is the 1-based position)
StepIdZeroBased(i) == Str(<<"s", "t", "e", "p", "_">> \o IntToChars(i - 1))

\* `step_${i}`
StepId(i) == Str(<<"s", "t", "e", "p", "_">> \o IntToChars(i))

\* faulty variant: a step without title gets the empty string
StepTitleEmpty(i) == EmptyString

\* `Step ${i}`
StepTitle(i) == Str(<<"S", "t", "e", "p", " ">> \o IntToChars(i))

TypeErrorNull == Throw("TypeError", "Cannot read properties of null")

(***************************************************************************)
(* repairJson(text): strict parse, else the parse of the greedy match of   *)
(* /\{[\s\S]*\}/, the span from the first { to the last }.                 *)
(***************************************************************************)
Positions(t, c) == {i \in 1..Len(t) : t[i] = c}

Min(S) == CHOOSE x \in S : \A y \in S : x <= y

Max(S) == CHOOSE x \in S : \A y \in S : y <= x

\* faulty variant: the lazy /\{[\s\S]*?\}/, which stops at the first }
BraceMatchLazy(t) ==
    LET opens == Positions(t, "{")
        closes == {i \in Positions(t, "}") : opens # {} /\ Min(opens) < i}
    IN  IF closes # {} THEN SubSeq(t, Min(opens), Min(closes)) ELSE <<>>

\* text.match(/\{[\s\S]*\}/): <<>> stands for no match
BraceMatch(t) ==
    LET opens == Positions(t, "{")
        closes == Positions(t, "}")
    IN  IF opens # {} /\ closes # {} /\ Min(opens) < Max(closes)
        THEN SubSeq(t, Min(opens), Max(closes))
        ELSE <<>>

\* faulty variant: backslashes are stripped from the text before it is parsed
repairJsonStripped(text) ==
    LET cleaned == SelectSeq(text, LAMBDA c : c # "\\")
        strict == JsonParse(cleaned)
        match == BraceMatch(cleaned)
    IN  IF strict.ok THEN strict
        ELSE IF match = <<>> THEN Throw("Error", "No JSON found")
        ELSE JsonParse(match)

repairJson(text) ==
    LET strict == JsonParse(text)
        match == BraceMatch(text)
    IN  IF strict.ok THEN strict
        ELSE IF match = <<>> THEN Throw("Error", "No JSON found")
        ELSE JsonParse(match)

(***************************************************************************)
(* normalizeRoadmap(raw) of chat.js.                                       *)
(***************************************************************************)
\* faulty variant: a bare string is not taken as the title
MapStepNoString(s, i) ==
    Obj(<<Member(KeyId, StepId(i)),
          Member(KeyTitle, OrElse(Get(s, KeyTitle), StepTitle(i))),
          Member(KeyDescription, OrElse(Get(s, KeyDescription), EmptyString)),
          Member(KeyDuration, OrElse(Get(s, KeyDuration), EmptyString)),
          Member(KeyType, Task),
          Member(KeyResources, OrElse(Get(s, KeyResources), Arr(<<>>)))>>)

\* the callback of raw.steps.map, i the 1-based position (s is not null)
MapStep(s, i) ==
    Obj(<<Member(KeyId, StepId(i)),
          Member(KeyTitle, IF IsString(s) THEN s ELSE OrElse(Get(s, KeyTitle), StepTitle(i))),
          Member(KeyDescription, OrElse(Get(s, KeyDescription), EmptyString)),
          Member(KeyDuration, OrElse(Get(s, KeyDuration), EmptyString)),
          Member(KeyType, Task),
          Member(KeyResources, OrElse(Get(s, KeyResources), Arr(<<>>)))>>)

\* faulty variant: a steps array is preferred to a nodes array
ResolveNodesStepsFirst(raw) ==
    IF IsArray(Get(raw, KeySteps))
    THEN LET steps == Get(raw, KeySteps).a IN
         IF \E i \in 1..Len(steps) : ~Readable(steps[i])
         THEN TypeErrorNull
         ELSE Return(Arr([i \in 1..Len(steps) |-> MapStep(steps[i], i)]))
    ELSE IF IsArray(Get(raw, KeyNodes)) THEN Return(Get(raw, KeyNodes))
    ELSE Return(Arr(<<>>))

\* the node list: raw.nodes, else the mapped raw.steps, else []
ResolveNodes(raw) ==
    IF IsArray(Get(raw, KeyNodes)) THEN Return(Get(raw, KeyNodes))
    ELSE IF IsArray(Get(raw, KeySteps))
    THEN LET steps == Get(raw, KeySteps).a IN
         IF \E i \in 1..Len(steps) : ~Readable(steps[i])
         THEN TypeErrorNull
         ELSE Return(Arr([i \in 1..Len(steps) |-> MapStep(steps[i], i)]))
    ELSE Return(Arr(<<>>))

Edge(source, target, label) ==
    Obj(<<Member(KeySource, source), Member(KeyTarget, target), Member(KeyLabel, label)>>)

\* faulty variant: the loop stops one node early (i < nodes.length - 2)
ChainEdgesShort(nodes) ==
    [i \in 1..(Len(nodes) - 2) |->
        Edge(Get(nodes[i], KeyId), Get(nodes[i + 1], KeyId), Then)]

\* the loop pushing { source: nodes[i].id, target: nodes[i + 1].id, label: 'Then' }
ChainEdges(nodes) ==
    [i \in 1..(Len(nodes) - 1) |->
        Edge(Get(nodes[i], KeyId), Get(nodes[i + 1], KeyId), Then)]

\* the loop reads nodes[i].id of every node once there are two of them
ChainThrows(nodes) == Len(nodes) >= 2 /\ \E i \in 1..Len(nodes) : ~Readable(nodes[i])

\* raw.<key> || fallback
ScalarField(raw, key, fallback) == OrElse(Get(raw, key), fallback)

normalizeRoadmap(raw) ==
    IF ~Readable(raw) THEN TypeErrorNull
    ELSE LET resolved == ResolveNodes(raw) IN
         IF ~resolved.ok THEN resolved
         ELSE IF ChainThrows(resolved.val.a) THEN TypeErrorNull
         ELSE Return(Obj(<<
                Member(KeyTitle, ScalarField(raw, KeyTitle, DefaultTitle)),
                Member(KeyDescription, ScalarField(raw, KeyDescription, EmptyString)),
                Member(KeyNodes, resolved.val),
                Member(KeyEdges, Arr(ChainEdges(resolved.val.a))),
                Member(KeyEstimatedTotalDuration,
                       ScalarField(raw, KeyEstimatedTotalDuration, EmptyString)),
                Member(KeyDifficulty, ScalarField(raw, KeyDifficulty, DefaultDifficulty)),
                Member(KeyCategory, ScalarField(raw, KeyCategory, DefaultCategory))>>))

(***************************************************************************)
(* The inline parsing and normalisation of server-patch.js.                *)
(***************************************************************************)
RECURSIVE TrimStart(_)
TrimStart(t) == IF t # <<>> /\ IsSpace(Head(t)) THEN TrimStart(Tail(t)) ELSE t

RECURSIVE TrimEnd(_)
TrimEnd(t) ==
    IF t # <<>> /\ IsSpace(t[Len(t)]) THEN TrimEnd(SubSeq(t, 1, Len(t) - 1)) ELSE t

\* t.trim()
Trim(t) == TrimEnd(TrimStart(t))

\* t.startsWith(lit)
StartsWith(t, lit) == Matches(t, 1, lit)

\* t.replace(/^lit/, '')
RemovePrefix(t, lit) ==
    IF StartsWith(t, lit) THEN SubSeq(t, Len(lit) + 1, Len(t)) ELSE t

\* t.replace(/lit$/, '')
RemoveSuffix(t, lit) ==
    IF Len(lit) <= Len(t) /\ SubSeq(t, Len(t) - Len(lit) + 1, Len(t)) = lit
    THEN SubSeq(t, 1, Len(t) - Len(lit))
    ELSE t

\* the character U+0060, which a TLA+ string cannot hold
Backtick == "U+0060"

Fence == <<Backtick, Backtick, Backtick>>

FenceJson == Fence \o <<"j", "s", "o", "n">>

FenceEnd == <<"\n">> \o Fence

\* the text handed to JSON.parse
StripFence(responseText) ==
    LET jsonText == Trim(responseText) IN
    IF StartsWith(jsonText, FenceJson)
    THEN RemoveSuffix(RemovePrefix(jsonText, FenceJson \o <<"\n">>), FenceEnd)
    ELSE IF StartsWith(jsonText, Fence)
    THEN RemoveSuffix(RemovePrefix(jsonText, Fence \o <<"\n">>), FenceEnd)
    ELSE jsonText

\* v.length
Length(v) ==
    CASE v.k = "array" -> Num(Len(v.a))
      [] v.k = "string" -> Num(Len(v.s))
      [] OTHER -> Get(v, KeyLength)

\* the own enumerable properties that ...v copies
OwnProps(v) ==
    CASE v.k = "object" -> v.o
      [] v.k = "array" -> [i \in 1..Len(v.a) |-> Member(IntToChars(i - 1), v.a[i])]
      [] v.k = "string" -> [i \in 1..Len(v.s) |-> Member(IntToChars(i - 1), Str(<<v.s[i]>>))]
      [] OTHER -> <<>>

RECURSIVE PutAll(_, _)
PutAll(obj, members) ==
    IF members = <<>> THEN obj
    ELSE PutAll(Put(obj, Head(members).key, Head(members).val), Tail(members))

\* the callback of roadmap.nodes.map, i the 1-based position (node is not null)
EnsureFields(node, i) ==
    PutAll(Obj(<<Member(KeyId, OrElse(Get(node, KeyId), StepId(i))),
                 Member(KeyTitle, OrElse(Get(node, KeyTitle), StepTitle(i))),
                 Member(KeyDescription, OrElse(Get(node, KeyDescription), EmptyString)),
                 Member(KeyDuration, OrElse(Get(node, KeyDuration), EmptyString)),
                 Member(KeyType, OrElse(Get(node, KeyType), Task)),
                 Member(KeyResources, OrElse(Get(node, KeyResources), Arr(<<>>)))>>),
           OwnProps(node))

\* !roadmap.edges || roadmap.edges.length === 0
NoEdges(roadmap) ==
    \/ ~Truthy(Get(roadmap, KeyEdges))
    \/ Length(Get(roadmap, KeyEdges)) = Num(0)

\* roadmap.edges after "Generate edges if not provided"
PatchEdges(roadmap) ==
    IF NoEdges(roadmap)
    THEN Arr(ChainEdges(Get(roadmap, KeyNodes).a))
    ELSE Get(roadmap, KeyEdges)

\* lines 297-323 on the parsed value
patchNormalize(roadmap) ==
    IF ~Readable(roadmap) THEN TypeErrorNull
    ELSE IF ~Truthy(Get(roadmap, KeyNodes)) \/ ~IsArray(Get(roadmap, KeyNodes))
    THEN Throw("Error", "Invalid roadmap structure: missing nodes array")
    ELSE LET nodes == Get(roadmap, KeyNodes).a IN
         IF NoEdges(roadmap) /\ ChainThrows(nodes) THEN TypeErrorNull
         ELSE IF \E i \in 1..Len(nodes) : ~Readable(nodes[i]) THEN TypeErrorNull
         ELSE Return(Put(Put(roadmap, KeyEdges, PatchEdges(roadmap)),
                         KeyNodes, Arr([i \in 1..Len(nodes) |-> EnsureFields(nodes[i], i)])))

\* the object JSON.parse returned (normIn) as it is when lines 297-323 end:
\* roadmap.edges is assigned and filled by the loop up to the node it throws
\* at, roadmap.nodes is assigned when the map went through
PatchRawAfter(roadmap) ==
    IF ~Readable(roadmap) \/ ~Truthy(Get(roadmap, KeyNodes)) \/ ~IsArray(Get(roadmap, KeyNodes))
    THEN roadmap
    ELSE LET nodes == Get(roadmap, KeyNodes).a
             bad == {i \in 1..Len(nodes) : ~Readable(nodes[i])}
             pushed == IF bad = {} \/ Len(nodes) < 2 THEN ChainEdges(nodes)
                       ELSE SubSeq(ChainEdges(nodes), 1, Max({0, Min(bad) - 2}))
             withEdges == IF NoEdges(roadmap) THEN Put(roadmap, KeyEdges, Arr(pushed))
                          ELSE roadmap
         IN  IF (NoEdges(roadmap) /\ ChainThrows(nodes)) \/ bad # {}
             THEN withEdges
             ELSE Put(withEdges, KeyNodes, Arr([i \in 1..Len(nodes) |-> EnsureFields(nodes[i], i)]))

(***************************************************************************)
(* HTTP responses.  roadmap is the roadmap as the client reads it from     *)
(* the JSON body res.json wrote, success tells whether the body has        *)
(* success: true, error is the err.message of the body's error member      *)
(* (server-patch.js writes it after 'Failed to generate roadmap: ').       *)
(***************************************************************************)
NoResponse ==
    [status |-> 0, success |-> FALSE, roadmap |-> Undef, error |-> "", message |-> <<>>]

ErrorResponse(status, text) ==
    [status |-> status, success |-> FALSE, roadmap |-> Undef, error |-> text, message |-> <<>>]

\* what the client parses from the body res.json(v) sends
Wire(v) == JsonParse(Stringify(v)).val

NoCall == Throw("none", "")

(***************************************************************************)
(* The handlers of POST /api/generate-roadmap, from the arrival of the     *)
(* model's text to the response.                                           *)
(***************************************************************************)
\* chat.js: res.json({ roadmap })
ChatSuccess(roadmap) ==
    [status |-> 200, success |-> FALSE, roadmap |-> Wire(roadmap), error |-> "",
     message |-> <<>>]

\* server-patch.js: res.json({ success: true, roadmap, message })
PatchSuccess(roadmap) ==
    [status |-> 200, success |-> TRUE, roadmap |-> Wire(roadmap), error |-> "",
     message |-> <<"C", "r", "e", "a", "t", "e", "d", " ", "r", "o", "a", "d", "m", "a", "p",
                   " ", "w", "i", "t", "h", " ">>
                 \o IntToChars(Len(Get(roadmap, KeyNodes).a))
                 \o <<" ", "s", "t", "e", "p", "s">>]

\* faulty variant: the node count is not looked at
ChatRespondUnchecked(parsed, roadmap) ==
    IF ~parsed.ok THEN ErrorResponse(500, parsed.msg)
    ELSE IF ~roadmap.ok THEN ErrorResponse(500, roadmap.msg)
    ELSE ChatSuccess(roadmap.val)

\* chat.js lines 434-446
ChatRespond(parsed, roadmap) ==
    IF ~parsed.ok THEN ErrorResponse(500, parsed.msg)
    ELSE IF ~roadmap.ok THEN ErrorResponse(500, roadmap.msg)
    ELSE IF Len(Get(roadmap.val, KeyNodes).a) = 0
    THEN ErrorResponse(500, "AI returned no usable steps")
    ELSE ChatSuccess(roadmap.val)

\* error.message.includes('not configured') ? 503 : 500; of the messages
\* thrown here only that of getGeminiModel includes it
PatchStatus(message) == IF message = "GEMINI_API_KEY is not configured" THEN 503 ELSE 500

\* server-patch.js lines 295-335
PatchRespond(parsed, roadmap) ==
    IF ~parsed.ok THEN ErrorResponse(PatchStatus(parsed.msg), parsed.msg)
    ELSE IF ~roadmap.ok THEN ErrorResponse(PatchStatus(roadmap.msg), roadmap.msg)
    ELSE PatchSuccess(roadmap.val)

(***************************************************************************)
(* The inputs: the goals a client posts and the texts the model returns.   *)
(***************************************************************************)
MaxNodes == 3

MaxSteps == 2

SeqsUpTo(S, n) == UNION {[1..m -> S] : m \in 0..n}

\* an object of the members whose value is not undefined
ObjOf(members) == Obj(Defined(members))

NodeA == Obj(<<Member(KeyId, Str(<<"a">>)), Member(KeyTitle, Str(<<"A">>))>>)

NodeB == Obj(<<Member(KeyId, Str(<<"b">>))>>)

NodeNoId == Obj(<<Member(KeyTitle, Str(<<"N">>))>>)

NodeEntries == {NodeA, NodeB, NodeNoId, Null, Str(<<"h", "i">>)}

\* an edge that is no link of a chain
BackEdge == Edge(Str(<<"b">>), Str(<<"a">>), Str(<<"O", "r">>))

EdgeInputs ==
    {Undef, Null, Arr(<<>>), Arr(<<BackEdge>>), Str(<<"x">>), Obj(<<Member(KeyLength, Num(0))>>)}

StepEntries ==
    {Str(<<"R", "e", "a", "d">>), Str(<<"B", "u", "i", "l", "d">>),
     Obj(<<Member(KeyId, Str(<<"x">>)), Member(KeyTitle, Str(<<"T">>)),
           Member(KeyDuration, Str(<<"1", "w">>))>>),
     Obj(<<Member(KeyTitle, EmptyString), Member(KeyDescription, Null),
           Member(KeyDuration, Num(0)), Member(KeyResources, Null)>>),
     Obj(<<>>), Null, Num(7)}

ScalarInputs ==
    {Str(<<"x">>), EmptyString, Num(42), Num(0), Bool(TRUE), Bool(FALSE), Null,
     Arr(<<>>), Obj(<<>>)}

ScalarKeys ==
    {KeyTitle, KeyDescription, KeyEstimatedTotalDuration, KeyDifficulty, KeyCategory}

\* model outputs in the `nodes` shape of server-patch.js's prompt
NodeRoadmaps ==
    {ObjOf(<<Member(KeyTitle, Str(<<"R">>)), Member(KeyNodes, Arr(ns)), Member(KeyEdges, es)>>) :
        ns \in SeqsUpTo(NodeEntries, MaxNodes), es \in EdgeInputs}

\* model outputs in the `steps` shape of chat.js's prompt
StepRoadmaps ==
    {ObjOf(<<Member(KeyTitle, Str(<<"R">>)), Member(KeyNodes, ns), Member(KeySteps, Arr(ss))>>) :
        ss \in SeqsUpTo(StepEntries, MaxSteps), ns \in {Undef, Str(<<"x">>)}}

\* model outputs with a nodes array and a steps array
BothRoadmaps ==
    {Obj(<<Member(KeyTitle, Str(<<"R">>)), Member(KeySteps, Arr(<<Str(<<"R", "e", "a", "d">>)>>)),
           Member(KeyNodes, Arr(ns))>>) : ns \in SeqsUpTo({NodeA, NodeB}, 1)}

\* model outputs with neither a nodes array nor a steps array
NeitherRoadmaps ==
    {ObjOf(<<Member(KeyTitle, Str(<<"R">>)), Member(KeyNodes, ns), Member(KeySteps, ss)>>) :
        ns \in {Undef, Null, Obj(<<Member(KeyLength, Num(1))>>)},
        ss \in {Undef, Str(<<"R", "e", "a", "d">>), Obj(<<>>)}}

ScalarRoadmaps ==
    {Obj(<<Member(key, v), Member(KeySteps, Arr(<<Str(<<"S">>)>>))>>) :
        key \in ScalarKeys, v \in ScalarInputs}

CanonStep(id) ==
    Obj(<<Member(KeyId, Str(id)), Member(KeyTitle, Str(id)),
          Member(KeyDescription, EmptyString), Member(KeyDuration, EmptyString),
          Member(KeyType, Task), Member(KeyResources, Arr(<<>>))>>)

Canonical(nodes, edges) ==
    Obj(<<Member(KeyTitle, Str(<<"R">>)), Member(KeyDescription, EmptyString),
          Member(KeyNodes, Arr(nodes)), Member(KeyEdges, Arr(edges)),
          Member(KeyEstimatedTotalDuration, EmptyString),
          Member(KeyDifficulty, DefaultDifficulty),
          Member(KeyCategory, DefaultCategory)>>)

\* roadmaps already in the canonical form, with chain and non-chain edges
CanonicalRoadmaps ==
    {Canonical(<<CanonStep(<<"a">>)>>, <<>>),
     Canonical(<<CanonStep(<<"a">>), CanonStep(<<"b">>)>>,
               <<Edge(Str(<<"a">>), Str(<<"b">>), Then)>>),
     Canonical(<<CanonStep(<<"a">>), CanonStep(<<"b">>)>>, <<BackEdge>>),
     Canonical(<<CanonStep(<<"a">>), CanonStep(<<"b">>), CanonStep(<<"c">>)>>,
               <<Edge(Str(<<"a">>), Str(<<"c">>), Then)>>)}

\* JSON values that are no object
NonObjects ==
    {Null, Num(5), Str(<<"h", "i">>), Bool(TRUE), Arr(<<>>), Arr(<<NodeA>>)}

\* strings that need escaping, a repeated-looking key order, nested values
OtherObjects ==
    {Obj(<<>>),
     Obj(<<Member(KeyTitle, Str(<<"\"", "}", "\\", "\n", "{">>)),
           Member(KeySteps, Arr(<<Str(<<"{">>)>>))>>),
     Obj(<<Member(KeyNodes, Arr(<<Obj(<<Member(KeyId, Null), Member(KeyTitle, Null),
                                        Member(KeyType, Str(<<"q", "u", "i", "z">>))>>)>>))>>),
     Obj(<<Member(KeyCategory, Num(-12)), Member(KeyTitle, Str(<<"Z">>)),
           Member(KeySteps, Arr(<<Obj(<<Member(KeyResources, Arr(<<Str(<<"u">>), Null>>))>>)>>))>>)}

JsonValues ==
    NodeRoadmaps \cup StepRoadmaps \cup BothRoadmaps \cup NeitherRoadmaps \cup ScalarRoadmaps
        \cup CanonicalRoadmaps \cup NonObjects \cup OtherObjects

\* the values the model is taken to wrap in other text
FramedValues == ScalarRoadmaps \cup CanonicalRoadmaps \cup NonObjects \cup OtherObjects

\* what the model may put before and after the JSON it was asked for
Frames ==
    {<< FenceJson \o <<"\n">>, FenceEnd >>,
     << Fence \o <<"\n">>, FenceEnd >>,
     << <<" ", "\n">>, <<"\n">> >>,
     << <<"H", "e", "r", "e", ":", "\n">>, <<"\n", "D", "o", "n", "e", ".">> >>,
     << FenceJson \o <<"\n">>, FenceEnd \o <<"\n", "D", "o", "n", "e", ".">> >>,
     << <<"U", "s", "e", " ", "{", "x", "}", ".", " ">>, <<>> >>}

\* texts that are no JSON and hold no JSON
BrokenTexts ==
    {<<>>,
     <<"S", "o", "r", "r", "y", ",", " ", "I", " ", "c", "a", "n", "'",
      "t", " ", "h", "e", "l", "p", " ", "w", "i", "t", "h", " ", "t",
      "h", "a", "t", ".">>,
     <<"{", "o", "o", "p", "s", "}">>,
     <<"{", "\"", "t", "i", "t", "l", "e", "\"", ":", "\"", "A", "\"",
      ",", "}">>,
     <<"{", "'", "t", "i", "t", "l", "e", "'", ":", "'", "A", "'", "}">>,
     <<"{", "\"", "t", "i", "t", "l", "e", "\"", ":", "\"", "A", "\"">>,
     <<"}", " ", "n", "o", " ", "{">>,
     <<"{", "\"", "a", "\"", ":", "1", "}", " ", "{", "\"", "b", "\"",
      ":", "2", "}">>}

\* a reply of the model: the JSON value it serialised (undefined when it
\* wrote none) and the text around it
Reply(json, before, after) == [json |-> json, before |-> before, after |-> after]

NoReply == Reply(Undef, <<>>, <<>>)

AiReplies ==
    {Reply(x, <<>>, <<>>) : x \in JsonValues}
        \cup {Reply(x, w[1], w[2]) : x \in FramedValues, w \in Frames}
        \cup {Reply(Undef, t, <<>>) : t \in BrokenTexts}

\* result.response.text()
TextOf(reply) ==
    IF reply.json.k = "undefined" THEN reply.before
    ELSE reply.before \o Stringify(reply.json) \o reply.after

Goals == {Undef, EmptyString, Str(<<"G", "o">>), Num(7)}

GeminiErrors == {"GEMINI_API_KEY is not configured", "fetch failed"}


(***************************************************************************)
(* The state machine.  pc is "idle" between requests, "awaitAI" while a    *)
(* handler awaits generateWithGemini and "sent" once the request is        *)
(* answered and the page has not yet read the answer; handler names the    *)
(* server file whose handler took the request and req holds what the       *)
(* request carried: its token (cookie or Authorization header) and the     *)
(* user of its session.  aiSent is what the model wrote and aiText the     *)
(* text the handler received; repOut, normIn and normOut record the parse  *)
(* and the normalisation of the request, rawAfter the parsed object as the *)
(* normalisation left it, response the answer, calls the number of calls   *)
(* of generateWithGemini, of the JSON repair and of res.json made for the  *)
(* request, created the argument the page gave createRoadmap.  session is  *)
(* the session store of the server (session.user of each browser),         *)
(* lastAuth what last changed the session of each browser (an accepted     *)
(* POST /api/login, with its email and the server file that took it, a     *)
(* POST /api/logout or the expiry of the cookie), page the answer to the   *)
(* latest request when that was one for /app or /js, login the idToken and *)
(* the status of the answer when it was a POST /api/login.                 *)
(***************************************************************************)
Clients == {"c1", "c2"}

NoUser == Undef

NoPage == [client |-> "none", result |-> "none"]

Init ==
    /\ pc = "idle"
    /\ handler = "none"
    /\ aiSent = NoReply
    /\ aiText = <<>>
    /\ repOut = NoCall
    /\ normIn = Undef
    /\ normOut = NoCall
    /\ response = NoResponse
    /\ calls = [gemini |-> 0, repair |-> 0, sent |-> 0]
    /\ rawAfter = Undef
    /\ created = Undef
    /\ req = [token |-> Undef, user |-> NoUser]
    /\ session = [c \in Clients |-> NoUser]
    /\ lastAuth = [c \in Clients |-> [event |-> "none", email |-> Undef, server |-> "none"]]
    /\ page = NoPage
    /\ login = [idToken |-> Undef, answer |-> 0]
    /\ loaded = TRUE
    /\ db = FALSE
    /\ currentUser = "nobody"
    /\ stored = [user \in {"u1", "u2"} |-> <<>>]
    /\ nextId = 0
    /\ RoadmapApp = [currentRoadmap |-> <<>>, roadmaps |-> <<>>, isGenerating |-> FALSE]
    /\ gen = [call \in {"g1", "g2"} |->
                 [pc |-> "idle", ok |-> TRUE, data |-> <<>>]]
    /\ pending = {}
    /\ added = {}
    /\ roadmapsUnsubscribe = 0
    /\ listeners = {}
    /\ AppState = [messages |-> <<>>]
    /\ inflight = 0
    /\ ops = 0

\* a handler starts: the record of the previous request is dropped; refusal
\* is the answer of an early return, NoResponse when there is none
Begin(name, refusal) ==
    /\ pc = "idle"
    /\ handler' = name
    /\ aiSent' = NoReply
    /\ aiText' = <<>>
    /\ repOut' = NoCall
    /\ normIn' = Undef
    /\ normOut' = NoCall
    /\ rawAfter' = Undef
    /\ created' = Undef
    /\ pc' = IF refusal = NoResponse THEN "awaitAI" ELSE "sent"
    /\ calls' = [gemini |-> IF refusal = NoResponse THEN 1 ELSE 0, repair |-> 0,
                 sent |-> IF refusal = NoResponse THEN 0 ELSE 1]
    /\ response' = refusal

\* chat.js: the handler up to await generateWithGemini(prompt); the route
\* has no middleware
ChatPostGenerateRoadmap(client, token, goal) ==
    /\ Begin("chat", IF Truthy(goal) THEN NoResponse
                      ELSE ErrorResponse(400, "Goal is required"))
    /\ req' = [token |-> token, user |-> session[client]]
    /\ page' = NoPage
    /\ login' = [idToken |-> Undef, answer |-> 0]
    /\ UNCHANGED <<session, lastAuth>>
    /\ UNCHANGED pageVars

ApiGenerateRoadmap == <<"/", "a", "p", "i", "/", "g", "e", "n", "e", "r", "a", "t", "e", "-",
                        "r", "o", "a", "d", "m", "a", "p">>

\* res.redirect('/login')
RedirectLogin ==
    [status |-> 302, success |-> FALSE, roadmap |-> Undef, error |-> "",
     message |-> <<"/", "l", "o", "g", "i", "n">>]

\* server-patch.js: verifyIdToken, html being req.accepts('html')
patchVerifyIdToken(path, token, html) ==
    IF StartsWith(path, <<"/", "a", "p", "i", "/">>) THEN "next"
    ELSE IF ~Truthy(token) THEN (IF html THEN "redirect" ELSE "401")
    ELSE "next"

\* server-patch.js: verifyIdToken, then the handler up to
\* await generateWithGemini(prompt, ...)
PatchPostGenerateRoadmap(client, token, html, goal) ==
    /\ Begin("patch",
             CASE patchVerifyIdToken(ApiGenerateRoadmap, token, html) = "redirect" ->
                    RedirectLogin
               [] patchVerifyIdToken(ApiGenerateRoadmap, token, html) = "401" ->
                    ErrorResponse(401, "Unauthorized: No token provided")
               [] OTHER ->
                    IF Truthy(goal) /\ IsString(goal) THEN NoResponse
                    ELSE ErrorResponse(400, "Goal is required"))
    /\ req' = [token |-> token, user |-> session[client]]
    /\ page' = NoPage
    /\ login' = [idToken |-> Undef, answer |-> 0]
    /\ UNCHANGED <<session, lastAuth>>
    /\ UNCHANGED pageVars

\* faulty variant: the catch block asks the model again
AfterCatchRetry(message) == "awaitAI"

\* the catch block answers and the handler ends: nothing calls
\* generateWithGemini or parses again
AfterCatch(message) == "sent"

\* the handler after its try block: a response is sent and the handler ends
Finish(name, parsed, roadmap, answer) ==
    LET after == IF answer.status = 200 THEN "sent" ELSE AfterCatch(answer.error) IN
    /\ repOut' = parsed
    /\ normIn' = parsed.val
    /\ normOut' = roadmap
    /\ rawAfter' = IF ~parsed.ok THEN Undef
                   ELSE IF name = "patch" THEN PatchRawAfter(parsed.val) ELSE parsed.val
    /\ response' = answer
    /\ pc' = after
    /\ calls' = [gemini |-> calls.gemini + (IF after = "awaitAI" THEN 1 ELSE 0),
                 repair |-> calls.repair + 1,
                 sent |-> calls.sent + (IF after = "sent" THEN 1 ELSE 0)]
    /\ UNCHANGED <<handler, created, req, session, lastAuth, page, login>>
    /\ UNCHANGED pageVars

\* chat.js: generateWithGemini returned text; the rest of the handler
ChatGenerated(reply) ==
    /\ pc = "awaitAI" /\ handler = "chat"
    /\ LET text == TextOf(reply)
           parsed == repairJson(text)
           roadmap == IF parsed.ok THEN normalizeRoadmap(parsed.val) ELSE NoCall
       IN  /\ Finish("chat", parsed, roadmap, ChatRespond(parsed, roadmap))
           /\ aiText' = text
    /\ aiSent' = reply

\* server-patch.js: generateWithGemini returned text; the rest of the handler
PatchGenerated(reply) ==
    /\ pc = "awaitAI" /\ handler = "patch"
    /\ LET text == TextOf(reply)
           parsed == JsonParse(StripFence(text))
           roadmap == IF parsed.ok THEN patchNormalize(parsed.val) ELSE NoCall
       IN  /\ Finish("patch", parsed, roadmap, PatchRespond(parsed, roadmap))
           /\ aiText' = text
    /\ aiSent' = reply

\* generateWithGemini threw: the catch block answers
GeminiFailed(message) ==
    /\ pc = "awaitAI"
    /\ response' = ErrorResponse(IF handler = "patch" THEN PatchStatus(message) ELSE 500,
                                 message)
    /\ pc' = "sent"
    /\ calls' = [calls EXCEPT !.sent = @ + 1]
    /\ UNCHANGED <<handler, aiSent, aiText, repOut, normIn, normOut, rawAfter, created,
                   req, session, lastAuth, page, login>>
    /\ UNCHANGED pageVars

\* the page: generateRoadmapWithAI reads the answer to its fetch and, when it
\* returns the roadmap, generateAIRoadmap hands it to createRoadmap
ClientReceived ==
    /\ pc = "sent"
    /\ created' = IF response.status \in 200..299 /\ Truthy(response.roadmap)
                  THEN Obj(<<Member(KeyTitle, Get(response.roadmap, KeyTitle)),
                             Member(KeyDescription, Get(response.roadmap, KeyDescription)),
                             Member(KeyNodes, Get(response.roadmap, KeyNodes)),
                             Member(KeyEdges, Get(response.roadmap, KeyEdges)),
                             Member(<<"i", "s", "P", "u", "b", "l", "i", "c">>, Bool(FALSE))>>)
                  ELSE Undef
    /\ pc' = "idle"
    /\ UNCHANGED <<handler, aiSent, aiText, repOut, normIn, normOut, response, calls, rawAfter,
                   req, session, lastAuth, page, login>>
    /\ UNCHANGED pageVars

(***************************************************************************)
(* Sessions and the protected app of the chat.js server.                   *)
(***************************************************************************)
KeyAuthenticated == <<"a", "u", "t", "h", "e", "n", "t", "i", "c", "a", "t", "e", "d">>

\* req.session.user && req.session.user.authenticated
Authenticated(user) == Truthy(user) /\ Truthy(Get(user, KeyAuthenticated))

\* faulty variant: the route is read from req.path, which leaves out the
\* mount point of app.use('/js', ...)
verifyIdTokenByPath(url, user) ==
    IF StartsWith(url.path, <<"/", "a", "p", "i", "/">>) THEN "next"
    ELSE IF ~Authenticated(user) THEN "redirect"
    ELSE "next"

\* chat.js: verifyIdToken on a request for url with session.user user
verifyIdToken(url, user) ==
    IF StartsWith(url.originalUrl, <<"/", "a", "p", "i", "/">>) THEN "next"
    ELSE IF ~Authenticated(user)
    THEN (IF StartsWith(url.originalUrl, <<"/", "a", "p", "i", "/">>) THEN "401" ELSE "redirect")
    ELSE "next"

\* requests that reach app.get('/app', ...) and app.use('/js', ...)
ProtectedUrls ==
    {[originalUrl |-> <<"/", "a", "p", "p">>, path |-> <<"/", "a", "p", "p">>],
     [originalUrl |-> <<"/", "j", "s", "/", "a", "p", "p", ".", "j", "s">>,
      path |-> <<"/", "a", "p", "p", ".", "j", "s">>],
     [originalUrl |-> <<"/", "j", "s", "/", "a", "p", "i", "/", "x", ".", "j", "s">>,
      path |-> <<"/", "a", "p", "i", "/", "x", ".", "j", "s">>]}

\* the idToken and email of a login body
IdTokens == {Undef, EmptyString, Str(<<"t", "o", "k">>), Num(5)}

Emails == {Undef, Str(<<"a", "@", "b">>)}

\* a login ends: the session gets its user when the answer is 200
LoginDone(client, idToken, email, server, answer, user) ==
    /\ IF answer = 200
       THEN /\ session' = [session EXCEPT ![client] = user]
            /\ lastAuth' = [lastAuth EXCEPT ![client] =
                               [event |-> "login", email |-> email, server |-> server]]
       ELSE UNCHANGED <<session, lastAuth>>
    /\ login' = [idToken |-> idToken, answer |-> answer]
    /\ page' = NoPage
    /\ UNCHANGED <<pc, handler, aiSent, aiText, repOut, normIn, normOut, response, calls,
                   rawAfter, created, req>>
    /\ UNCHANGED pageVars

\* chat.js, POST /api/login: a missing token is answered 400, one that has
\* no substring method 401; otherwise the session gets its user
PostLogin(client, idToken, email) ==
    LoginDone(client, idToken, email, "chat",
              IF ~Truthy(idToken) THEN 400 ELSE IF ~IsString(idToken) THEN 401 ELSE 200,
              IF ~IsString(idToken) THEN NoUser
              ELSE Obj(<<Member(KeyAuthenticated, Bool(TRUE)),
                         Member(<<"e", "m", "a", "i", "l">>, email),
                         Member(<<"t", "o", "k", "e", "n">>,
                                Str(SubSeq(idToken.s, 1, Min({20, Len(idToken.s)}))
                                    \o <<".", ".", ".">>))>>))

\* server-patch.js, POST /api/login: a missing token is answered 400;
\* otherwise the session gets its user
PatchPostLogin(client, idToken, email) ==
    LoginDone(client, idToken, email, "patch", IF ~Truthy(idToken) THEN 400 ELSE 200,
              Obj(<<Member(<<"e", "m", "a", "i", "l">>, email),
                    Member(KeyAuthenticated, Bool(TRUE))>>))

\* faulty variant: the answer is sent and the session is kept
PostLogoutKeep(client) ==
    /\ lastAuth' = [lastAuth EXCEPT ![client] =
                       [event |-> "logout", email |-> Undef, server |-> "none"]]
    /\ page' = NoPage
    /\ login' = [idToken |-> Undef, answer |-> 0]
    /\ UNCHANGED <<pc, handler, aiSent, aiText, repOut, normIn, normOut, response, calls,
                   rawAfter, created, req, session>>
    /\ UNCHANGED pageVars

\* POST /api/logout: req.session.destroy
PostLogout(client) ==
    /\ session' = [session EXCEPT ![client] = NoUser]
    /\ lastAuth' = [lastAuth EXCEPT ![client] =
                       [event |-> "logout", email |-> Undef, server |-> "none"]]
    /\ page' = NoPage
    /\ login' = [idToken |-> Undef, answer |-> 0]
    /\ UNCHANGED <<pc, handler, aiSent, aiText, repOut, normIn, normOut, response, calls,
                   rawAfter, created, req>>
    /\ UNCHANGED pageVars

\* the session cookie reaches its maxAge
SessionExpires(client) ==
    /\ session[client] # NoUser
    /\ session' = [session EXCEPT ![client] = NoUser]
    /\ lastAuth' = [lastAuth EXCEPT ![client] =
                       [event |-> "expired", email |-> Undef, server |-> "none"]]
    /\ page' = NoPage
    /\ login' = [idToken |-> Undef, answer |-> 0]
    /\ UNCHANGED <<pc, handler, aiSent, aiText, repOut, normIn, normOut, response, calls,
                   rawAfter, created, req>>
    /\ UNCHANGED pageVars

\* GET /app and GET /js/...: verifyIdToken, then the file is served
GetProtected(client, url) ==
    /\ page' = [client |-> client,
                result |-> IF verifyIdToken(url, session[client]) = "next" THEN "served"
                           ELSE verifyIdToken(url, session[client])]
    /\ login' = [idToken |-> Undef, answer |-> 0]
    /\ UNCHANGED <<pc, handler, aiSent, aiText, repOut, normIn, normOut, response, calls,
                   rawAfter, created, req, session, lastAuth>>
    /\ UNCHANGED pageVars

\* chat.js, GET /api/auth-status: the body of the answer as the browser
\* reads it
AuthStatus(user) ==
    Wire(Obj(<<Member(KeyAuthenticated, Bool(Authenticated(user))),
               Member(<<"u", "s", "e", "r">>,
                      IF Truthy(user)
                      THEN Obj(<<Member(<<"e", "m", "a", "i", "l">>,
                                        Get(user, <<"e", "m", "a", "i", "l">>))>>)
                      ELSE Null)>>))

\* server-patch.js, GET /api/auth-status
PatchAuthStatus(user) ==
    Wire(IF Authenticated(user)
         THEN Obj(<<Member(KeyAuthenticated, Bool(TRUE)), Member(<<"u", "s", "e", "r">>, user)>>)
         ELSE Obj(<<Member(KeyAuthenticated, Bool(FALSE))>>))

\* the requests of the page, whose fetch sets no Authorization header and no
\* Accept header, of a browser that has not logged in
Next ==
    \/ \E goal \in Goals : ChatPostGenerateRoadmap("c1", Undef, goal)
    \/ \E goal \in Goals : PatchPostGenerateRoadmap("c1", Undef, TRUE, goal)
    \/ \E reply \in AiReplies : ChatGenerated(reply)
    \/ \E reply \in AiReplies : PatchGenerated(reply)
    \/ \E message \in GeminiErrors : GeminiFailed(message)
    \/ ClientReceived

Spec == Init /\ [][Next]_vars

\* the token a request carries in its cookie or Authorization header
Tokens == {Undef, Str(<<"t", "o", "k">>)}

\* a few answers of the model, for the requests of AuthSpec
AuthReplies ==
    {Reply(x, <<>>, <<>>) : x \in CanonicalRoadmaps} \cup {Reply(Undef, <<>>, <<>>)}

\* the servers with their sessions: any browser logs in and out, asks for
\* the protected app and posts to /api/generate-roadmap with or without token
AuthNext ==
    \/ \E client \in Clients, idToken \in IdTokens :
          PostLogin(client, idToken, Str(<<"a", "@", "b">>))
    \/ \E client \in Clients : PostLogout(client)
    \/ \E client \in Clients : SessionExpires(client)
    \/ \E client \in Clients, url \in ProtectedUrls : GetProtected(client, url)
    \/ \E client \in Clients, token \in Tokens, goal \in Goals :
          ChatPostGenerateRoadmap(client, token, goal)
    \/ \E client \in Clients, token \in Tokens, html \in BOOLEAN, goal \in Goals :
          PatchPostGenerateRoadmap(client, token, html, goal)
    \/ \E reply \in AuthReplies : ChatGenerated(reply)
    \/ \E reply \in AuthReplies : PatchGenerated(reply)
    \/ \E message \in GeminiErrors : GeminiFailed(message)
    \/ ClientReceived

AuthSpec == Init /\ [][AuthNext]_vars

\* the session routes of either server file: any browser logs in and out and
\* its session cookie may expire
SessionNext ==
    \/ \E client \in Clients, idToken \in IdTokens, email \in Emails :
          PostLogin(client, idToken, email)
    \/ \E client \in Clients, idToken \in IdTokens, email \in Emails :
          PatchPostLogin(client, idToken, email)
    \/ \E client \in Clients : PostLogout(client)
    \/ \E client \in Clients : SessionExpires(client)

SessionSpec == Init /\ [][SessionNext]_vars

(***************************************************************************)
(* The page: app.js and the chat of chat.js over the Firestore service.    *)
(* loaded tells that the page has not been reloaded; db and currentUser    *)
(* are the service's db (FALSE for null) and auth.currentUser; stored is   *)
(* the roadmaps collection of each user as the Firestore client shows it,  *)
(* latest update first (a write is visible from the moment it is issued),  *)
(* nextId the number of documents ever added.  RoadmapApp is the object of *)
(* app.js, currentRoadmap holding no or one roadmap; gen is the position   *)
(* of each generateAIRoadmap call; pending are the promises of             *)
(* loadUserRoadmaps, updateRoadmapContent, openRoadmap and                 *)
(* deleteRoadmapHandler that have not settled, with what they settle to;   *)
(* added are the steps of addRoadmapStep whose update storage took,        *)
(* each with the id of its roadmap.  listeners are the                     *)
(* onSnapshot listeners attached, roadmapsUnsubscribe the one the service  *)
(* remembers (0 for null).  AppState is the object of utils.js, inflight   *)
(* the number of sendMessage calls that await their fetch.  ops counts the *)
(* calls the user has made of the handlers of app.js and of the service.   *)
(***************************************************************************)
MaxRoadmaps == 2

MaxSubscriptions == 2

MaxSends == 2

MaxOps == 4

\* faulty variant: the service does not look at db
ServiceNoDbCheck(op, database, user, backendOk) ==
    IF user = "nobody" THEN "User not logged in"
    ELSE IF backendOk THEN "" ELSE "unavailable"

\* the head of createRoadmap, getUserRoadmaps, getRoadmap, updateRoadmap and
\* deleteRoadmap: the message of the error the call is rejected with, "" when
\* it reaches storage and storage, whose verdict is backendOk, accepts it
Service(op, database, user, backendOk) ==
    IF ~database THEN "Firestore not initialized"
    ELSE IF user = "nobody" THEN "User not logged in"
    ELSE IF backendOk THEN "" ELSE "unavailable"

\* auth.onAuthStateChanged fires: with a user, initializeFirestore sets db
\* when the Firestore SDK is there and loadUserRoadmaps asks for the list
AuthStateChanged(user, firestoreLoaded) ==
    /\ loaded
    /\ ops < MaxOps
    /\ ops' = ops + 1
    /\ user # currentUser
    /\ currentUser' = user
    /\ IF user = "nobody"
       THEN /\ firestoreLoaded
            /\ UNCHANGED <<db, pending>>
       ELSE LET error == Service("getUserRoadmaps", db \/ firestoreLoaded, user, TRUE) IN
            /\ db' = (db \/ firestoreLoaded)
            /\ pending' = pending \cup
                   {[op |-> "load", id |-> 0, ok |-> error = "",
                     data |-> IF error = "" THEN stored[user] ELSE <<>>]}
    /\ UNCHANGED <<loaded, stored, nextId, RoadmapApp, gen, added, roadmapsUnsubscribe,
                   listeners, AppState, inflight>>
    /\ UNCHANGED <<pc, handler, aiSent, aiText, repOut, normIn, normOut, response,
                   calls, rawAfter, created, req, session, lastAuth, page, login>>

\* loadUserRoadmaps after await getUserRoadmaps()
LoadDone(p) ==
    /\ loaded
    /\ p \in pending /\ p.op = "load"
    /\ pending' = pending \ {p}
    /\ RoadmapApp' = IF p.ok THEN [RoadmapApp EXCEPT !.roadmaps = p.data] ELSE RoadmapApp
    /\ UNCHANGED <<loaded, db, currentUser, stored, nextId, gen, added,
                   roadmapsUnsubscribe, listeners, AppState, inflight, ops>>
    /\ UNCHANGED <<pc, handler, aiSent, aiText, repOut, normIn, normOut, response,
                   calls, rawAfter, created, req, session, lastAuth, page, login>>

\* faulty variant: the check of RoadmapApp.isGenerating is left out
GenerateStartUnchecked(call, goal) ==
    /\ loaded
    /\ ops < MaxOps
    /\ ops' = ops + 1
    /\ gen[call].pc = "idle"
    /\ nextId + Cardinality({c \in DOMAIN gen : gen[c].pc # "idle"}) < MaxRoadmaps
    /\ IF Trim(goal) = <<>>
       THEN UNCHANGED <<gen, RoadmapApp>>
       ELSE /\ RoadmapApp' = [RoadmapApp EXCEPT !.isGenerating = TRUE]
            /\ gen' = [gen EXCEPT ![call] = [pc |-> "awaitAI", ok |-> TRUE, data |-> <<>>]]
    /\ UNCHANGED <<loaded, db, currentUser, stored, nextId, pending, added,
                   roadmapsUnsubscribe, listeners, AppState, inflight>>
    /\ UNCHANGED <<pc, handler, aiSent, aiText, repOut, normIn, normOut, response,
                   calls, rawAfter, created, req, session, lastAuth, page, login>>

\* generateAIRoadmap up to await generateRoadmapWithAI(goal.trim())
GenerateStart(call, goal) ==
    /\ loaded
    /\ ops < MaxOps
    /\ ops' = ops + 1
    /\ gen[call].pc = "idle"
    /\ nextId + Cardinality({c \in DOMAIN gen : gen[c].pc # "idle"}) < MaxRoadmaps
    /\ IF Trim(goal) = <<>>
       THEN UNCHANGED <<gen, RoadmapApp>>
       ELSE IF RoadmapApp.isGenerating
       THEN UNCHANGED <<gen, RoadmapApp>>
       ELSE /\ RoadmapApp' = [RoadmapApp EXCEPT !.isGenerating = TRUE]
            /\ gen' = [gen EXCEPT ![call] = [pc |-> "awaitAI", ok |-> TRUE, data |-> <<>>]]
    /\ UNCHANGED <<loaded, db, currentUser, stored, nextId, pending, added,
                   roadmapsUnsubscribe, listeners, AppState, inflight>>
    /\ UNCHANGED <<pc, handler, aiSent, aiText, repOut, normIn, normOut, response,
                   calls, rawAfter, created, req, session, lastAuth, page, login>>

\* generateAIRoadmap from one await to the next: fetched tells whether
\* generateRoadmapWithAI returned a roadmap; the catch block ends the call
\* after a rejection, return savedRoadmap ends it after openRoadmap
GenerateStep(call, fetched, backendOk) ==
    LET caught ==
            /\ gen' = [gen EXCEPT ![call] = [pc |-> "idle", ok |-> TRUE, data |-> <<>>]]
            /\ RoadmapApp' = [RoadmapApp EXCEPT !.isGenerating = FALSE]
            /\ UNCHANGED <<stored, nextId>>
    IN
    /\ loaded
    /\ CASE gen[call].pc = "awaitAI" ->
              IF ~fetched THEN backendOk /\ caught
              ELSE LET error == Service("createRoadmap", db, currentUser, backendOk)
                       doc == [id |-> nextId + 1, nodes |-> <<>>]
                   IN  /\ gen' = [gen EXCEPT ![call] =
                                     [pc |-> "awaitCreate", ok |-> error = "",
                                      data |-> <<doc>>]]
                       /\ IF error = ""
                          THEN /\ stored' = [stored EXCEPT ![currentUser] = <<doc>> \o @]
                               /\ nextId' = nextId + 1
                          ELSE UNCHANGED <<stored, nextId>>
                       /\ UNCHANGED RoadmapApp
         [] gen[call].pc = "awaitCreate" ->
              /\ fetched /\ backendOk
              /\ IF ~gen[call].ok THEN caught
                 ELSE LET error == Service("getRoadmap", db, currentUser, TRUE)
                          id == gen[call].data[1].id
                      IN  /\ RoadmapApp' = [RoadmapApp EXCEPT !.roadmaps = gen[call].data \o @]
                          /\ gen' = [gen EXCEPT ![call] =
                                        [pc |-> "awaitOpen", ok |-> error = "",
                                         data |-> IF error # "" THEN <<>>
                                                  ELSE SelectSeq(stored[currentUser],
                                                                 LAMBDA d : d.id = id)]]
                          /\ UNCHANGED <<stored, nextId>>
         [] gen[call].pc = "awaitOpen" ->
              /\ fetched /\ backendOk
              /\ RoadmapApp' = [RoadmapApp EXCEPT
                                   !.currentRoadmap = IF gen[call].data # <<>>
                                                      THEN gen[call].data ELSE @,
                                   !.isGenerating = FALSE]
              /\ gen' = [gen EXCEPT ![call] = [pc |-> "idle", ok |-> TRUE, data |-> <<>>]]
              /\ UNCHANGED <<stored, nextId>>
         [] OTHER -> FALSE
    /\ UNCHANGED <<loaded, db, currentUser, pending, added, roadmapsUnsubscribe, listeners,
                   AppState, inflight, ops>>
    /\ UNCHANGED <<pc, handler, aiSent, aiText, repOut, normIn, normOut, response,
                   calls, rawAfter, created, req, session, lastAuth, page, login>>

\* addRoadmapStep, title being the answer to the first prompt: the calls of
\* updateRoadmapContent and openRoadmap run up to their first await
AddRoadmapStep(roadmapId, title) ==
    LET found == SelectSeq(RoadmapApp.roadmaps, LAMBDA r : r.id = roadmapId) IN
    /\ loaded
    /\ ops < MaxOps
    /\ ops' = ops + 1
    /\ <<roadmapId, title>> \notin added
    /\ IF title = "" \/ found = <<>>
       THEN UNCHANGED <<stored, pending, added>>
       ELSE LET nodes == Append(found[1].nodes, title)
                exists == /\ currentUser # "nobody"
                          /\ \E i \in DOMAIN stored[currentUser] :
                                stored[currentUser][i].id = roadmapId
                updateError == Service("updateRoadmap", db, currentUser, exists)
                after == IF updateError # "" THEN stored
                         ELSE [stored EXCEPT ![currentUser] =
                                  <<[id |-> roadmapId, nodes |-> nodes]>>
                                  \o SelectSeq(@, LAMBDA d : d.id # roadmapId)]
                getError == Service("getRoadmap", db, currentUser, TRUE)
            IN  /\ stored' = after
                /\ pending' = pending \cup
                       {[op |-> "update", id |-> roadmapId, ok |-> updateError = "",
                         data |-> <<[id |-> roadmapId, nodes |-> nodes]>>],
                        [op |-> "open", id |-> roadmapId, ok |-> getError = "",
                         data |-> IF getError # "" THEN <<>>
                                  ELSE SelectSeq(after[currentUser],
                                                 LAMBDA d : d.id = roadmapId)]}
                /\ added' = IF updateError # "" THEN added
                            ELSE added \cup {<<roadmapId, title>>}
    /\ UNCHANGED <<loaded, db, currentUser, nextId, RoadmapApp, gen, roadmapsUnsubscribe,
                   listeners, AppState, inflight>>
    /\ UNCHANGED <<pc, handler, aiSent, aiText, repOut, normIn, normOut, response,
                   calls, rawAfter, created, req, session, lastAuth, page, login>>

\* updateRoadmapContent after await updateRoadmap(roadmapId, data)
UpdateDone(p) ==
    /\ loaded
    /\ p \in pending /\ p.op = "update"
    /\ pending' = pending \ {p}
    /\ RoadmapApp' =
          IF ~p.ok THEN RoadmapApp
          ELSE LET at == {i \in DOMAIN RoadmapApp.roadmaps : RoadmapApp.roadmaps[i].id = p.id}
                   merged(r) == [r EXCEPT !.nodes = p.data[1].nodes]
               IN  [RoadmapApp EXCEPT
                       !.roadmaps = [i \in DOMAIN @ |->
                                        IF at # {} /\ i = Min(at) THEN merged(@[i]) ELSE @[i]],
                       !.currentRoadmap = IF @ # <<>> /\ @[1].id = p.id
                                          THEN <<merged(@[1])>> ELSE @]
    /\ UNCHANGED <<loaded, db, currentUser, stored, nextId, gen, added,
                   roadmapsUnsubscribe, listeners, AppState, inflight, ops>>
    /\ UNCHANGED <<pc, handler, aiSent, aiText, repOut, normIn, normOut, response,
                   calls, rawAfter, created, req, session, lastAuth, page, login>>

\* openRoadmap after await getRoadmap(roadmapId)
OpenDone(p) ==
    /\ loaded
    /\ p \in pending /\ p.op = "open"
    /\ pending' = pending \ {p}
    /\ RoadmapApp' = IF p.ok /\ p.data # <<>>
                     THEN [RoadmapApp EXCEPT !.currentRoadmap = p.data] ELSE RoadmapApp
    /\ UNCHANGED <<loaded, db, currentUser, stored, nextId, gen, added,
                   roadmapsUnsubscribe, listeners, AppState, inflight, ops>>
    /\ UNCHANGED <<pc, handler, aiSent, aiText, repOut, normIn, normOut, response,
                   calls, rawAfter, created, req, session, lastAuth, page, login>>

\* deleteRoadmapHandler up to await deleteRoadmap(roadmapId), confirmed
\* being the answer to confirm(...)
DeleteRoadmapHandler(roadmapId, confirmed, backendOk) ==
    /\ loaded
    /\ ops < MaxOps
    /\ ops' = ops + 1
    /\ IF ~confirmed
       THEN /\ backendOk
            /\ UNCHANGED <<stored, pending>>
       ELSE LET error == Service("deleteRoadmap", db, currentUser, backendOk) IN
            /\ stored' = IF error # "" THEN stored
                         ELSE [stored EXCEPT ![currentUser] =
                                  SelectSeq(@, LAMBDA d : d.id # roadmapId)]
            /\ pending' = pending \cup {[op |-> "delete", id |-> roadmapId,
                                         ok |-> error = "", data |-> <<>>]}
    /\ UNCHANGED <<loaded, db, currentUser, nextId, RoadmapApp, gen, added,
                   roadmapsUnsubscribe, listeners, AppState, inflight>>
    /\ UNCHANGED <<pc, handler, aiSent, aiText, repOut, normIn, normOut, response,
                   calls, rawAfter, created, req, session, lastAuth, page, login>>

\* faulty variant: the local state is changed whatever the delete answered
DeleteDoneAnyway(p) ==
    /\ loaded
    /\ p \in pending /\ p.op = "delete"
    /\ pending' = pending \ {p}
    /\ RoadmapApp' = [RoadmapApp EXCEPT
                         !.roadmaps = SelectSeq(@, LAMBDA r : r.id # p.id),
                         !.currentRoadmap = <<>>]
    /\ loaded' = FALSE
    /\ UNCHANGED <<db, currentUser, stored, nextId, gen, added, roadmapsUnsubscribe,
                   listeners, AppState, inflight, ops>>
    /\ UNCHANGED <<pc, handler, aiSent, aiText, repOut, normIn, normOut, response,
                   calls, rawAfter, created, req, session, lastAuth, page, login>>

\* deleteRoadmapHandler after await deleteRoadmap(roadmapId): the catch
\* block after a rejection; otherwise the roadmap leaves the local state and
\* showRoadmapList clears currentRoadmap and reloads the page
DeleteDone(p) ==
    /\ loaded
    /\ p \in pending /\ p.op = "delete"
    /\ pending' = pending \ {p}
    /\ IF p.ok
       THEN /\ RoadmapApp' = [RoadmapApp EXCEPT
                                 !.roadmaps = SelectSeq(@, LAMBDA r : r.id # p.id),
                                 !.currentRoadmap = <<>>]
            /\ loaded' = FALSE
       ELSE UNCHANGED <<RoadmapApp, loaded>>
    /\ UNCHANGED <<db, currentUser, stored, nextId, gen, added, roadmapsUnsubscribe,
                   listeners, AppState, inflight, ops>>
    /\ UNCHANGED <<pc, handler, aiSent, aiText, repOut, normIn, normOut, response,
                   calls, rawAfter, created, req, session, lastAuth, page, login>>

\* subscribeToRoadmaps: onSnapshot attaches a listener and the service
\* remembers its unsubscribe function
SubscribeToRoadmaps ==
    /\ loaded
    /\ ops < MaxOps
    /\ ops' = ops + 1
    /\ Cardinality(listeners) < MaxSubscriptions
    /\ IF ~db \/ currentUser = "nobody"
       THEN UNCHANGED <<listeners, roadmapsUnsubscribe>>
       ELSE LET new == Min((1..MaxSubscriptions) \ listeners) IN
            /\ listeners' = listeners \cup {new}
            /\ roadmapsUnsubscribe' = new
    /\ UNCHANGED <<loaded, db, currentUser, stored, nextId, RoadmapApp, gen, pending,
                   added, AppState, inflight>>
    /\ UNCHANGED <<pc, handler, aiSent, aiText, repOut, normIn, normOut, response,
                   calls, rawAfter, created, req, session, lastAuth, page, login>>

\* unsubscribeFromRoadmaps
UnsubscribeFromRoadmaps ==
    /\ loaded
    /\ ops < MaxOps
    /\ ops' = ops + 1
    /\ IF roadmapsUnsubscribe # 0
       THEN /\ listeners' = listeners \ {roadmapsUnsubscribe}
            /\ roadmapsUnsubscribe' = 0
       ELSE UNCHANGED <<listeners, roadmapsUnsubscribe>>
    /\ UNCHANGED <<loaded, db, currentUser, stored, nextId, RoadmapApp, gen, pending,
                   added, AppState, inflight>>
    /\ UNCHANGED <<pc, handler, aiSent, aiText, repOut, normIn, normOut, response,
                   calls, rawAfter, created, req, session, lastAuth, page, login>>

\* faulty variant: the user message is added before the input is looked at
SendMessageUntrimmed(input) ==
    /\ loaded
    /\ ops < MaxOps
    /\ ops' = ops + 1
    /\ Len(SelectSeq(AppState.messages, LAMBDA m : m.role = "user")) < MaxSends
    /\ AppState' = [AppState EXCEPT
                       !.messages = Append(@, [role |-> "user", content |-> Trim(input)])]
    /\ inflight' = inflight + 1
    /\ UNCHANGED <<loaded, db, currentUser, stored, nextId, RoadmapApp, gen, pending,
                   added, roadmapsUnsubscribe, listeners>>
    /\ UNCHANGED <<pc, handler, aiSent, aiText, repOut, normIn, normOut, response,
                   calls, rawAfter, created, req, session, lastAuth, page, login>>

\* sendMessage up to await fetch('/api/chat', ...), input being
\* elements.chatInput.value
SendMessage(input) ==
    /\ loaded
    /\ ops < MaxOps
    /\ ops' = ops + 1
    /\ Len(SelectSeq(AppState.messages, LAMBDA m : m.role = "user")) < MaxSends
    /\ IF Trim(input) = <<>>
       THEN UNCHANGED <<AppState, inflight>>
       ELSE /\ AppState' = [AppState EXCEPT
                               !.messages = Append(@, [role |-> "user",
                                                       content |-> Trim(input)])]
            /\ inflight' = inflight + 1
    /\ UNCHANGED <<loaded, db, currentUser, stored, nextId, RoadmapApp, gen, pending,
                   added, roadmapsUnsubscribe, listeners>>
    /\ UNCHANGED <<pc, handler, aiSent, aiText, repOut, normIn, normOut, response,
                   calls, rawAfter, created, req, session, lastAuth, page, login>>

\* sendMessage after its fetch: the reply is added, or the notice of the
\* catch block when the fetch failed or the answer was not ok
ChatAnswered(ok, content) ==
    /\ loaded
    /\ inflight > 0
    /\ inflight' = inflight - 1
    /\ AppState' = [AppState EXCEPT
                       !.messages = Append(@,
                           [role |-> "assistant",
                            content |->
                              IF ok THEN content
                              ELSE <<"U+26A0", "U+FE0F", " ", "S", "o", "r", "r", "y", ",", " ", "I",
                               " ", "e", "n", "c", "o", "u", "n", "t", "e", "r", "e", "d", " ",
                               "a", "n", " ", "e", "r", "r", "o", "r", ".", " ", "P", "l", "e",
                               "a", "s", "e", " ", "t", "r", "y", " ", "a", "g", "a", "i", "n",
                               ".">>])]
    /\ UNCHANGED <<loaded, db, currentUser, stored, nextId, RoadmapApp, gen, pending,
                   added, roadmapsUnsubscribe, listeners, ops>>
    /\ UNCHANGED <<pc, handler, aiSent, aiText, repOut, normIn, normOut, response,
                   calls, rawAfter, created, req, session, lastAuth, page, login>>

\* the page in the hands of its user: sign-in and sign-out, generation,
\* steps, deletion, subscriptions and chat, with the promises settling in any
\* order
AppNext ==
    \/ \E user \in {"nobody", "u1", "u2"}, firestoreLoaded \in BOOLEAN :
          AuthStateChanged(user, firestoreLoaded)
    \/ \E p \in pending : LoadDone(p)
    \/ \E call \in DOMAIN gen, goal \in {<<" ">>, <<"G", "o">>} : GenerateStart(call, goal)
    \/ \E call \in DOMAIN gen, fetched \in BOOLEAN, backendOk \in BOOLEAN :
          GenerateStep(call, fetched, backendOk)
    \/ \E roadmapId \in 1..MaxRoadmaps, title \in {"", "s1", "s2"} :
          AddRoadmapStep(roadmapId, title)
    \/ \E p \in pending : UpdateDone(p)
    \/ \E p \in pending : OpenDone(p)
    \/ \E roadmapId \in 1..MaxRoadmaps, confirmed \in BOOLEAN, backendOk \in BOOLEAN :
          DeleteRoadmapHandler(roadmapId, confirmed, backendOk)
    \/ \E p \in pending : DeleteDone(p)
    \/ SubscribeToRoadmaps
    \/ UnsubscribeFromRoadmaps
    \/ \E input \in {<<" ">>, <<" ", "h", "i">>, <<"y", "o", " ">>} : SendMessage(input)
    \/ \E ok \in BOOLEAN, content \in {<<"o", "k">>} : ChatAnswered(ok, content)

AppSpec == Init /\ [][AppNext]_vars

(***************************************************************************)
(* Properties.                                                             *)
(***************************************************************************)
\* repairJson was applied to aiText
ChatParsed == handler = "chat" /\ repOut # NoCall

\* normalizeRoadmap was applied to normIn
ChatNormalized == handler = "chat" /\ repOut.ok

\* the inline normalisation of server-patch.js was applied to normIn
PatchNormalized == handler = "patch" /\ repOut.ok

\* C1: normalizeRoadmap is total: on every JSON object, the entries of whose
\* nodes or steps may be null, numbers, strings or incomplete objects, it
\* returns a roadmap and raises nothing, and title, description,
\* estimatedTotalDuration, difficulty and category are defined in the result.
C1_NormalizeTotal ==
    (ChatNormalized /\ IsObject(normIn)) =>
        /\ normOut.ok
        /\ \A key \in ScalarKeys : Get(normOut.val, key).k # "undefined"

\* C2: whatever repairJson returns is a JSON object, so normalizeRoadmap is
\* only ever applied to an object.
C2_RepairReturnsObject ==
    /\ (ChatParsed /\ repOut.ok) => IsObject(repOut.val)
    /\ ChatNormalized => IsObject(normIn)

\* a non-empty edges array in the model's response
SuppliesEdges(raw) == IsArray(Get(raw, KeyEdges)) /\ Get(raw, KeyEdges).a # <<>>

\* C3: a non-empty edges array of the response is the edges of the roadmap
\* produced, unchanged and in the same order (in either handler).
C3_SuppliedEdgesKept ==
    ((ChatNormalized \/ PatchNormalized) /\ normOut.ok /\ SuppliesEdges(normIn)) =>
        Get(normOut.val, KeyEdges) = Get(normIn, KeyEdges)

\* some node of the list has id as its id
IsNodeId(nodes, id) ==
    \E j \in 1..Len(nodes) : HasKey(nodes[j], KeyId) /\ Get(nodes[j], KeyId) = id

\* C4: in every roadmap a handler returns, the source and the target of each
\* edge are ids of nodes of the returned roadmap.
C4_EdgesReferenceNodes ==
    (response.status = 200 /\ IsArray(Get(response.roadmap, KeyEdges))) =>
        LET nodes == Get(response.roadmap, KeyNodes).a
            edges == Get(response.roadmap, KeyEdges).a
        IN  \A i \in 1..Len(edges) :
                /\ IsNodeId(nodes, Get(edges[i], KeySource))
                /\ IsNodeId(nodes, Get(edges[i], KeyTarget))

\* the response has no edges member, or a null or empty one
SuppliesNoEdges(raw) == ~HasKey(raw, KeyEdges) \/ Get(raw, KeyEdges) \in {Null, Arr(<<>>)}

\* the node list the edges are generated from: the resolved nodes of
\* normalizeRoadmap, the parsed nodes of server-patch.js
ChainedNodes ==
    IF handler = "chat" THEN Get(normOut.val, KeyNodes).a ELSE Get(normIn, KeyNodes).a

\* e is exactly { source, target, label: 'Then' }
IsThenEdge(e, source, target) ==
    /\ IsObject(e)
    /\ Len(e.o) = 3
    /\ Get(e, KeySource) = source
    /\ Get(e, KeyTarget) = target
    /\ Get(e, KeyLabel) = Then

SentBareObject == IsObject(aiSent.json) /\ aiSent.before = <<>> /\ aiSent.after = <<>>

\* C6: repairJson applied to the serialisation of a JSON object X returns X,
\* by the strict parse.
C6_RepairRoundTrip ==
    (ChatParsed /\ SentBareObject) =>
        /\ JsonParse(aiText).ok
        /\ repOut = Return(aiSent.json)

\* C6 witness: an object whose strings hold quotes, braces, a backslash and a
\* newline came back
C6_Witness ==
    /\ ChatParsed /\ SentBareObject /\ repOut.ok
    /\ \E c \in {"\"", "\\", "\n", "}"} :
          \E i \in 1..Len(Get(repOut.val, KeyTitle).s) : Get(repOut.val, KeyTitle).s[i] = c

NoBrace(t) == \A i \in 1..Len(t) : t[i] \notin {"{", "}"}

\* C7: when the strict parse fails, repairJson returns the parse of the text
\* from its first { to its last } inclusive; a JSON object inside a fence or
\* inside prose without braces is returned as that object.
C7_BraceSpan ==
    /\ (ChatParsed /\ ~JsonParse(aiText).ok) =>
          \A first \in Positions(aiText, "{"), last \in Positions(aiText, "}") :
             (/\ \A i \in Positions(aiText, "{") : first <= i
              /\ \A i \in Positions(aiText, "}") : i <= last
              /\ first < last)
             => repOut = JsonParse(SubSeq(aiText, first, last))
    /\ (ChatParsed /\ IsObject(aiSent.json) /\ NoBrace(aiSent.before) /\ NoBrace(aiSent.after))
          => repOut = Return(aiSent.json)

\* C7 witness: a fenced object with nested objects, which the strict parse
\* rejects, came back
C7_Witness ==
    /\ ChatParsed /\ ~JsonParse(aiText).ok /\ repOut.ok
    /\ StartsWith(aiSent.before, FenceJson)
    /\ IsArray(Get(repOut.val, KeyNodes)) /\ Len(Get(repOut.val, KeyNodes).a) >= 2
    /\ repOut.val = aiSent.json

Sorry ==
    <<"S", "o", "r", "r", "y", ",", " ", "I", " ", "c", "a", "n", "'", "t", " ",
      "h", "e", "l", "p", " ", "w", "i", "t", "h", " ", "t", "h", "a", "t", ".">>

\* C8: repairJson fails with one error kind, that of the text without any
\* {...} span, also when the span it extracted does not parse; it returns no
\* partial or default object then.
C8_OneErrorKind ==
    /\ repairJson(Sorry).ok = FALSE
    /\ (ChatParsed /\ ~repOut.ok) =>
          /\ repOut.err = repairJson(Sorry).err
          /\ repOut.val = Undef

StepTypes == {Str(<<"m", "i", "l", "e", "s", "t", "o", "n", "e">>), Task,
              Str(<<"r", "e", "s", "o", "u", "r", "c", "e">>)}

HasExactly(v, keys) ==
    /\ IsObject(v)
    /\ Len(v.o) = Cardinality(keys)
    /\ \A key \in keys : HasKey(v, key)

IsCanonicalStep(v) ==
    /\ HasExactly(v, {KeyId, KeyTitle, KeyDescription, KeyDuration, KeyType, KeyResources})
    /\ \A key \in {KeyId, KeyTitle, KeyDescription, KeyDuration} : IsString(Get(v, key))
    /\ Get(v, KeyType) \in StepTypes
    /\ IsArray(Get(v, KeyResources))
    /\ \A i \in 1..Len(Get(v, KeyResources).a) : IsString(Get(v, KeyResources).a[i])

IsCanonicalLink(v, nodes) ==
    /\ HasExactly(v, {KeySource, KeyTarget, KeyLabel})
    /\ IsNodeId(nodes, Get(v, KeySource))
    /\ IsNodeId(nodes, Get(v, KeyTarget))
    /\ IsString(Get(v, KeyLabel))

\* a roadmap in the canonical form of the data model
IsCanonical(v) ==
    /\ HasExactly(v, ScalarKeys \cup {KeyNodes, KeyEdges})
    /\ \A key \in ScalarKeys : IsString(Get(v, key))
    /\ Truthy(Get(v, KeyTitle))
    /\ IsArray(Get(v, KeyNodes)) /\ IsArray(Get(v, KeyEdges))
    /\ LET nodes == Get(v, KeyNodes).a
           edges == Get(v, KeyEdges).a
       IN  /\ \A i \in 1..Len(nodes) : IsCanonicalStep(nodes[i])
           /\ \A i, j \in 1..Len(nodes) :
                 Get(nodes[i], KeyId) = Get(nodes[j], KeyId) => i = j
           /\ \A i \in 1..Len(edges) : IsCanonicalLink(edges[i], nodes)

\* C9: normalizeRoadmap applied to a canonical roadmap, whatever its edges,
\* returns that roadmap field for field.
C9_Idempotent ==
    (ChatNormalized /\ IsCanonical(normIn)) =>
        /\ normOut.ok
        /\ \A key \in ScalarKeys \cup {KeyNodes, KeyEdges} :
              Get(normOut.val, key) = Get(normIn, key)

DefaultOf(key) ==
    CASE key = KeyTitle -> DefaultTitle
      [] key = KeyDifficulty -> DefaultDifficulty
      [] key = KeyCategory -> DefaultCategory
      [] OTHER -> EmptyString

\* C10: each of title, description, estimatedTotalDuration, difficulty and
\* category of the result is a string, and is the field's default whenever
\* the input value is absent or is not a string.
C10_ScalarDefaults ==
    (ChatNormalized /\ normOut.ok) =>
        \A key \in ScalarKeys :
            /\ IsString(Get(normOut.val, key))
            /\ ~IsString(Get(normIn, key)) => Get(normOut.val, key) = DefaultOf(key)

\* C11: no handler answers with a success response whose roadmap has no node:
\* a model output that yields an empty node list is answered with an error.
C11_NoEmptySuccess ==
    response.status = 200 =>
        /\ IsArray(Get(response.roadmap, KeyNodes))
        /\ Len(Get(response.roadmap, KeyNodes).a) >= 1

\* normalizeRoadmap mapped the steps array of normIn and returned
StepsMapped ==
    /\ ChatNormalized /\ normOut.ok
    /\ ~IsArray(Get(normIn, KeyNodes)) /\ IsArray(Get(normIn, KeySteps))

\* the characters of step_<n>
StepName(n) == <<"s", "t", "e", "p", "_">> \o NatToChars(n)

\* C12: for every entry of a steps array that has no id, the Step made of it
\* has the id step_<i+1>, i being the zero-based position of the entry.
C12_SynthesizedIds ==
    StepsMapped =>
        LET steps == Get(normIn, KeySteps).a
            nodes == Get(normOut.val, KeyNodes).a
        IN  /\ Len(nodes) = Len(steps)
            /\ \A i \in 0..(Len(steps) - 1) :
                  ~HasKey(steps[i + 1], KeyId) =>
                      Get(nodes[i + 1], KeyId) = Str(StepName(i + 1))

\* C12 witness: two entries without id became step_1 and step_2
C12_Witness ==
    /\ StepsMapped
    /\ Len(Get(normIn, KeySteps).a) = 2
    /\ \A i \in 1..2 : ~HasKey(Get(normIn, KeySteps).a[i], KeyId)
    /\ Get(Get(normOut.val, KeyNodes).a[1], KeyId) = Str(<<"s", "t", "e", "p", "_", "1">>)
    /\ Get(Get(normOut.val, KeyNodes).a[2], KeyId) = Str(<<"s", "t", "e", "p", "_", "2">>)

\* C13: in every roadmap a normalisation returns, from a nodes array or from
\* a steps array, each Step has a string as id and no two Steps have the
\* same id.
C13_UniqueStringIds ==
    ((ChatNormalized \/ PatchNormalized) /\ normOut.ok) =>
        LET nodes == Get(normOut.val, KeyNodes).a IN
        /\ \A i \in 1..Len(nodes) : IsString(Get(nodes[i], KeyId))
        /\ \A i, j \in 1..Len(nodes) :
              Get(nodes[i], KeyId) = Get(nodes[j], KeyId) => i = j

\* the model wrote, and nothing else, an object with a title and a steps
\* array of one or more strings, without nodes, edges, difficulty, category
SentTitleAndStrings ==
    /\ SentBareObject
    /\ HasKey(aiSent.json, KeyTitle)
    /\ \A key \in {KeyNodes, KeyEdges, KeyDifficulty, KeyCategory} : ~HasKey(aiSent.json, key)
    /\ IsArray(Get(aiSent.json, KeySteps))
    /\ Len(Get(aiSent.json, KeySteps).a) >= 1
    /\ \A i \in 1..Len(Get(aiSent.json, KeySteps).a) : IsString(Get(aiSent.json, KeySteps).a[i])

\* C14: repairJson then normalizeRoadmap on the text of a JSON object with a
\* title and a steps array of n >= 1 strings (no nodes, edges, difficulty or
\* category) gives n nodes with the ids step_1..step_n and the strings as
\* titles in order, the n-1 edges step_i -> step_(i+1) labelled Then,
\* difficulty "beginner" and category "general".
C14_EndToEnd ==
    (ChatParsed /\ SentTitleAndStrings) =>
        /\ repOut.ok /\ normOut.ok
        /\ LET steps == Get(aiSent.json, KeySteps).a
               nodes == Get(normOut.val, KeyNodes).a
               edges == Get(normOut.val, KeyEdges).a
           IN  /\ Len(nodes) = Len(steps)
               /\ \A i \in 1..Len(steps) :
                     /\ Get(nodes[i], KeyId) = Str(StepName(i))
                     /\ Get(nodes[i], KeyTitle) = steps[i]
               /\ Len(edges) = Len(steps) - 1
               /\ \A i \in 1..Len(edges) :
                     IsThenEdge(edges[i], Str(StepName(i)), Str(StepName(i + 1)))
        /\ Get(normOut.val, KeyDifficulty) = Str(<<"b", "e", "g", "i", "n", "n", "e", "r">>)
        /\ Get(normOut.val, KeyCategory) = Str(<<"g", "e", "n", "e", "r", "a", "l">>)

\* C14 witness: two different strings became the titles of step_1 and
\* step_2, joined by one edge
C14_Witness ==
    /\ ChatParsed /\ SentTitleAndStrings /\ normOut.ok
    /\ LET nodes == Get(normOut.val, KeyNodes).a IN
       /\ Len(nodes) = 2
       /\ Get(nodes[1], KeyTitle) = Str(<<"R", "e", "a", "d">>)
       /\ Get(nodes[2], KeyTitle) = Str(<<"B", "u", "i", "l", "d">>)
       /\ Get(nodes[2], KeyId) = Str(<<"s", "t", "e", "p", "_", "2">>)
    /\ Len(Get(normOut.val, KeyEdges).a) = 1

\* C20: the node list of normalizeRoadmap is the nodes array when nodes is an
\* array, also when steps is an array too; else, when steps is an array, it
\* has one Step of type task for each steps entry, in the order of the
\* entries; else it is the empty array.
C20_NodeListResolution ==
    (ChatNormalized /\ IsObject(normIn)) =>
        LET nodesIn == Get(normIn, KeyNodes)
            stepsIn == Get(normIn, KeySteps)
            nodes == Get(normOut.val, KeyNodes)
        IN  /\ IsArray(nodesIn) =>
                  /\ (\A i \in 1..Len(nodesIn.a) : Readable(nodesIn.a[i])) => normOut.ok
                  /\ normOut.ok => nodes = nodesIn
            /\ (~IsArray(nodesIn) /\ IsArray(stepsIn)) =>
                  /\ (\A i \in 1..Len(stepsIn.a) : Readable(stepsIn.a[i])) => normOut.ok
                  /\ normOut.ok =>
                        /\ IsArray(nodes) /\ Len(nodes.a) = Len(stepsIn.a)
                        /\ \A i \in 1..Len(stepsIn.a) :
                              /\ Get(nodes.a[i], KeyType) = Str(<<"t", "a", "s", "k">>)
                              /\ Get(nodes.a[i], KeyId) = Str(StepName(i))
                              /\ IsString(stepsIn.a[i]) => Get(nodes.a[i], KeyTitle) = stepsIn.a[i]
                              /\ Truthy(Get(stepsIn.a[i], KeyTitle)) =>
                                    Get(nodes.a[i], KeyTitle) = Get(stepsIn.a[i], KeyTitle)
            /\ (~IsArray(nodesIn) /\ ~IsArray(stepsIn)) =>
                  normOut.ok /\ nodes = Arr(<<>>)

\* C20 witness: a nodes array was taken although steps is a non-empty array
C20_Witness ==
    /\ ChatNormalized /\ normOut.ok
    /\ IsArray(Get(normIn, KeyNodes)) /\ IsArray(Get(normIn, KeySteps))
    /\ Len(Get(normIn, KeySteps).a) = 1
    /\ Get(normOut.val, KeyNodes) = Get(normIn, KeyNodes)
    /\ Len(Get(normOut.val, KeyNodes).a) = 1
    /\ Get(Get(normOut.val, KeyNodes).a[1], KeyId) = Str(<<"b">>)

\* C17: within one generate-roadmap request generateWithGemini is called at
\* most once and the JSON repair is applied at most once, whatever the
\* outcome; once a repair has failed the handler does not await the model
\* again.
C17_NoRetry ==
    /\ calls.gemini <= 1
    /\ calls.repair <= 1
    /\ (repOut # NoCall /\ ~repOut.ok) => pc # "awaitAI"

\* C17 witness: a request whose repair failed ended after one call of each
C17_Witness ==
    /\ handler = "chat" /\ repOut # NoCall /\ ~repOut.ok
    /\ pc = "idle"
    /\ calls = [gemini |-> 1, repair |-> 1, sent |-> 1]

\* the chat.js handler's repair of the model's text failed
RepairFailed == ChatParsed /\ ~repOut.ok

\* normalizeRoadmap returned a roadmap without nodes to the chat.js handler
EmptyRoadmap == ChatNormalized /\ normOut.ok /\ Len(Get(normOut.val, KeyNodes).a) = 0

\* C16: when the repair fails or the normalised roadmap has no node, the
\* chat.js handler sends exactly one response, an error without roadmap, and
\* ends, and the page does not call createRoadmap for the request.
C16_FailuresTerminal ==
    (RepairFailed \/ EmptyRoadmap) =>
        /\ pc # "awaitAI"
        /\ calls.sent = 1
        /\ response.status >= 400
        /\ response.error # ""
        /\ response.roadmap = Undef
        /\ created = Undef

\* C16 witness: the page has read the error answered for an empty steps
\* array and created nothing
C16_Witness ==
    /\ pc = "idle" /\ response.status = 500 /\ created = Undef
    /\ EmptyRoadmap /\ IsArray(Get(normIn, KeySteps))

\* C18: a normalisation leaves the parsed object it is given as it was (no
\* field of it, of its nodes or steps entries or of its edges is added,
\* removed or rewritten), and its result is determined by that object.
C18_NormalizePure ==
    (ChatNormalized \/ PatchNormalized) =>
        /\ rawAfter = normIn
        /\ normOut = IF handler = "chat" THEN normalizeRoadmap(normIn)
                     ELSE patchNormalize(normIn)

\* the request in hand carried no token and its session has no
\* authenticated user
Anonymous == handler # "none" /\ ~Truthy(req.token) /\ ~Authenticated(req.user)

\* C15: a request to /api/generate-roadmap that carries no token and has no
\* authenticated session is answered 401 and generateWithGemini is not
\* called for it.
C15_ApiNeedsToken ==
    Anonymous =>
        /\ calls.gemini = 0
        /\ response.status = 401

\* C19: /app and the files under /js are served only to a browser whose
\* session is authenticated and every other request for them is redirected
\* to /login; after POST /api/logout the browser's requests are redirected
\* until its next accepted POST /api/login.
C19_ProtectedApp ==
    \A client \in Clients :
        page.client = client =>
            /\ page.result \in {"served", "redirect"}
            /\ page.result = "served" <=> Authenticated(session[client])
            /\ page.result = "served" => lastAuth[client].event = "login"
            /\ lastAuth[client].event = "logout" => page.result = "redirect"

\* C19 witness: a browser that logged in and out is redirected while the
\* other browser is logged in
C19_Witness ==
    /\ page = [client |-> "c1", result |-> "redirect"]
    /\ lastAuth["c1"].event = "logout" /\ lastAuth["c2"].event = "login"
    /\ Authenticated(session["c2"])

StepFields == {KeyTitle, KeyDescription, KeyDuration, KeyResources}

C22_StepTypes ==
    ((ChatNormalized \/ PatchNormalized) /\ normOut.ok) =>
        LET nodes == Get(normOut.val, KeyNodes).a
            given == IF IsArray(Get(normIn, KeyNodes)) THEN Get(normIn, KeyNodes).a
                     ELSE IF IsArray(Get(normIn, KeySteps)) THEN Get(normIn, KeySteps).a
                     ELSE <<>>
        IN  \A i \in 1..Len(nodes) :
                /\ Get(nodes[i], KeyType) \in StepTypes
                /\ ~HasKey(given[i], KeyType) => Get(nodes[i], KeyType) = Task

\* C23: every node of a successful response of the server-patch.js handler
\* has id, title, description, duration, type and resources, each with a
\* value that is not null, and has the id step_<index+1> when the model gave
\* it no id, null or ''.
C23_RequiredFields ==
    (handler = "patch" /\ response.status = 200) =>
        LET nodes == Get(response.roadmap, KeyNodes).a
            given == Get(normIn, KeyNodes).a
        IN  \A i \in 1..Len(nodes) :
                /\ \A key \in StepFields \cup {KeyId, KeyType} :
                      HasKey(nodes[i], key) /\ Get(nodes[i], key) # Null
                /\ Get(given[i], KeyId) \in {Undef, Null, EmptyString} =>
                      Get(nodes[i], KeyId) = Str(StepName(i))

\* the body GET /api/auth-status answers to a browser, from the server that
\* took its login
StatusOf(client) ==
    IF lastAuth[client].server = "patch" THEN PatchAuthStatus(session[client])
    ELSE AuthStatus(session[client])

ReportsUser(client) ==
    /\ Get(StatusOf(client), KeyAuthenticated) = Bool(TRUE)
    /\ Get(Get(StatusOf(client), <<"u", "s", "e", "r">>), <<"e", "m", "a", "i", "l">>)
           = lastAuth[client].email

ReportsNobody(client) ==
    /\ Get(AuthStatus(session[client]), KeyAuthenticated) = Bool(FALSE)
    /\ Get(PatchAuthStatus(session[client]), KeyAuthenticated) = Bool(FALSE)

\* a POST /api/login answered 400 leaves every session as it was
RefusedLoginKeepsSession == [][login'.answer = 400 => session' = session]_vars

\* C24 as stated: POST /api/login without an idToken answers 400 and leaves
\* the session unchanged; after a POST /api/login with an idToken, GET
\* /api/auth-status reports authenticated true with the user's email until
\* POST /api/logout, after which it reports authenticated false.
C24_UntilLogoutOnly ==
    /\ [](/\ (login.answer # 0 /\ ~Truthy(login.idToken)) => login.answer = 400
          /\ (login.answer # 0 /\ Truthy(login.idToken)) => login.answer = 200
          /\ \A client \in Clients :
               /\ lastAuth[client].event \in {"login", "expired"} => ReportsUser(client)
               /\ lastAuth[client].event = "logout" => ReportsNobody(client))
    /\ RefusedLoginKeepsSession

\* C24: POST /api/login without an idToken answers 400 and leaves the session
\* unchanged; a POST /api/login whose idToken is a non-empty string answers
\* 200, and from then on GET /api/auth-status reports authenticated true with
\* the email of that login until POST /api/logout or the expiry of the
\* session cookie, after either of which it reports authenticated false.
C24_SessionLifecycle ==
    /\ [](/\ (login.answer # 0 /\ ~Truthy(login.idToken)) => login.answer = 400
          /\ (login.answer # 0 /\ Truthy(login.idToken) /\ IsString(login.idToken))
                 => login.answer = 200
          /\ \A client \in Clients :
               /\ lastAuth[client].event = "login" => ReportsUser(client)
               /\ lastAuth[client].event # "login" => ReportsNobody(client))
    /\ RefusedLoginKeepsSession

\* a browser that logged in made a login without idToken and is still
\* reported as its user, while the session of another one has expired
C24_Witness ==
    /\ login = [idToken |-> Undef, answer |-> 400]
    /\ lastAuth["c1"].event = "login" /\ lastAuth["c1"].email = Str(<<"a", "@", "b">>)
    /\ ReportsUser("c1")
    /\ lastAuth["c2"].event = "expired" /\ ReportsNobody("c2")

(***************************************************************************)
(* C25: generateAIRoadmap runs at most one generation at a time.           *)
(* RoadmapApp.isGenerating is true exactly while a call is between its     *)
(* start and its end, no two calls are there together, a call made while   *)
(* the flag is true starts nothing, and only the running call reaches      *)
(* createRoadmap.                                                          *)
(***************************************************************************)
C25_OneGeneration ==
    /\ [](LET running == {call \in DOMAIN gen : gen[call].pc # "idle"} IN
          /\ RoadmapApp.isGenerating <=> running # {}
          /\ Cardinality(running) <= 1)
    /\ [][/\ \A call \in DOMAIN gen :
                gen[call].pc = "idle" /\ gen'[call].pc # "idle"
                   => ~RoadmapApp.isGenerating /\ RoadmapApp'.isGenerating
          /\ nextId' # nextId => \E call \in DOMAIN gen :
                                    /\ gen[call].pc = "awaitAI"
                                    /\ gen'[call].pc = "awaitCreate"
          /\ \A call \in DOMAIN gen :
                gen[call].pc # "idle" /\ gen'[call].pc = "idle"
                   => ~RoadmapApp'.isGenerating]_vars

\* a generation has run to its end after a sign-in and one more call of a
\* handler: the roadmap is stored, listed and open, and the flag is false
C25_Witness ==
    /\ ops = 3
    /\ nextId = 1
    /\ \A call \in DOMAIN gen : gen[call].pc = "idle"
    /\ ~RoadmapApp.isGenerating
    /\ Len(RoadmapApp.roadmaps) = 1
    /\ RoadmapApp.currentRoadmap = <<[id |-> 1, nodes |-> <<>>]>>

(***************************************************************************)
(* C26: no step added with addRoadmapStep is lost.  Once no update of a    *)
(* roadmap is pending, the stored node list of the roadmap holds every     *)
(* step that addRoadmapStep wrote to it.                                   *)
(***************************************************************************)
C26_NoStepLost ==
    \A step \in added :
       (\A p \in pending : ~(p.op = "update" /\ p.id = step[1]))
          => \A user \in DOMAIN stored : \A i \in DOMAIN stored[user] :
                stored[user][i].id = step[1]
                   => \E n \in DOMAIN stored[user][i].nodes :
                         stored[user][i].nodes[n] = step[2]

(***************************************************************************)
(* C27: deleteRoadmapHandler keeps the local state consistent with         *)
(* storage.  No handler changes RoadmapApp.roadmaps or                     *)
(* RoadmapApp.currentRoadmap before its first await, so that a declined    *)
(* confirmation leaves them alone; the delete promise is fulfilled exactly *)
(* when storage no longer holds the roadmap; when it is fulfilled the      *)
(* roadmap leaves RoadmapApp.roadmaps and currentRoadmap is cleared, and   *)
(* when it is rejected RoadmapApp is unchanged.                            *)
(***************************************************************************)
C27_DeleteConsistent ==
    [][/\ ops' # ops => /\ RoadmapApp'.roadmaps = RoadmapApp.roadmaps
                        /\ RoadmapApp'.currentRoadmap = RoadmapApp.currentRoadmap
       /\ \A p \in pending' \ pending :
             p.op = "delete" =>
                IF p.ok
                THEN \A i \in DOMAIN stored'[currentUser] :
                        stored'[currentUser][i].id # p.id
                ELSE stored' = stored
       /\ \A p \in pending \ pending' :
             p.op = "delete" =>
                IF p.ok
                THEN /\ RoadmapApp'.roadmaps =
                           SelectSeq(RoadmapApp.roadmaps, LAMBDA r : r.id # p.id)
                     /\ RoadmapApp'.currentRoadmap = <<>>
                ELSE RoadmapApp' = RoadmapApp]_vars

\* the roadmap that was generated has been deleted from storage, the delete
\* has settled, the local state holds no roadmap and the page reloads
C27_Witness ==
    /\ ~loaded
    /\ nextId = 1
    /\ stored["u1"] = <<>> /\ stored["u2"] = <<>>
    /\ RoadmapApp.roadmaps = <<>>
    /\ RoadmapApp.currentRoadmap = <<>>
    /\ pending = {}
    /\ ops = 3

(***************************************************************************)
(* C28: the service operations on roadmaps fail and leave storage alone    *)
(* when Firestore is not initialized or no user is logged in.  A step that *)
(* changes storage is made with db set and a user logged in and changes    *)
(* the collection of that user only; a call that is made without db or     *)
(* without a user is rejected, and a rejected read carries no document.    *)
(***************************************************************************)
C28_ServiceGuards ==
    [][/\ stored' # stored =>
             /\ db /\ currentUser # "nobody"
             /\ \A user \in DOMAIN stored :
                   user # currentUser => stored'[user] = stored[user]
       /\ ~db' \/ currentUser' = "nobody" =>
             /\ stored' = stored
             /\ \A p \in pending' \ pending :
                   ~p.ok /\ (p.op \in {"load", "open"} => p.data = <<>>)
             /\ \A call \in DOMAIN gen :
                   gen'[call].pc \in {"awaitCreate", "awaitOpen"} /\ gen'[call] # gen[call]
                      => ~gen'[call].ok]_vars

\* a deleteRoadmap called after the sign-out was rejected, and the roadmap
\* of the user who had signed in is still stored
C28_Witness ==
    /\ db /\ currentUser = "nobody"
    /\ stored["u1"] = <<[id |-> 1, nodes |-> <<>>]>>
    /\ pending = {[op |-> "delete", id |-> 1, ok |-> FALSE, data |-> <<>>]}
    /\ ops = 4

(***************************************************************************)
(* C29: at most one roadmap subscription is active at a time.  No more     *)
(* than one listener is attached, and none is attached once                *)
(* unsubscribeFromRoadmaps has set roadmapsUnsubscribe to null.            *)
(***************************************************************************)
C29_AtMostOneSubscription ==
    /\ Cardinality(listeners) <= 1
    /\ roadmapsUnsubscribe = 0 => listeners = {}

(***************************************************************************)
(* C30: the chat history is append-only and paired.  The user messages are *)
(* as many as the assistant messages and the sendMessage calls in flight   *)
(* together; a step that changes AppState.messages appends one message and *)
(* keeps the others in place, a user message being the non-empty trimmed   *)
(* input of a call that starts its request and an assistant message the    *)
(* end of a call in flight; no request starts or ends without its message. *)
(***************************************************************************)
C30_ChatHistory ==
    /\ [](Len(SelectSeq(AppState.messages, LAMBDA m : m.role = "user"))
             = Len(SelectSeq(AppState.messages, LAMBDA m : m.role = "assistant"))
                  + inflight)
    /\ [][/\ AppState' # AppState =>
                /\ Len(AppState'.messages) = Len(AppState.messages) + 1
                /\ SubSeq(AppState'.messages, 1, Len(AppState.messages)) = AppState.messages
                /\ LET m == AppState'.messages[Len(AppState'.messages)] IN
                   IF m.role = "user"
                   THEN m.content # <<>> /\ inflight' = inflight + 1
                   ELSE m.role = "assistant" /\ inflight' = inflight - 1
          /\ inflight' # inflight => AppState' # AppState]_vars

\* two calls were in flight together; one got its reply and the other the
\* notice of the failed request
C30_Witness ==
    /\ inflight = 0
    /\ Len(AppState.messages) = 4
    /\ AppState.messages[1] = [role |-> "user", content |-> <<"h", "i">>]
    /\ AppState.messages[2] = [role |-> "user", content |-> <<"y", "o">>]
    /\ AppState.messages[3] = [role |-> "assistant", content |-> <<"o", "k">>]
    /\ AppState.messages[4].role = "assistant"
    /\ AppState.messages[4].content[1] = "U+26A0"

====
